---- MODULE Spec2Model ----
(***************************************************************************)
(* Model of the USDA nutrition tools: the retrying upstream client         *)
(* (src/src/usda_client.py), the HTTP tool endpoints                        *)
(* (src/src/mcp_http_server.py) and the MCP tools (src/src/mcp_server.py). *)
(***************************************************************************)
EXTENDS Integers, Sequences, FiniteSets, TLC

VARIABLES
    process,        \* the program that runs: "http" (mcp_http_server), "mcp"
                    \* (mcp_server) or "client" (a script using USDAClient)
    api_key,        \* USDAClient.api_key: TRUE when FDC_API_KEY is set
    client,         \* usda_client.client of the HTTP server: "None", "open", "closed"
    mcp_client,     \* mcp_server.client: "None" (no object), "nohandle", "open"
    pc,             \* position of the request in flight: "idle", "attempt", "backoff", "done"
    req,            \* the request being served
    attempt_number, \* tenacity's attempt_number of the running _make_request
    attempts,       \* outcome of each attempt of the running _make_request
    sleeps,         \* backoff waits slept during the running _make_request
    net_calls,      \* network calls issued to the upstream API for this request
    upstream,       \* how the upstream API answers the calls of the running _make_request
    started,        \* the HTTP server ran startup_event and not yet shutdown_event
    idx,            \* compare_foods: position in params.fdc_ids
    foods_data,     \* compare_foods: the foods fetched so far
    fetches,        \* how each finished _make_request of this request ended
    response,       \* what the caller of the tool received
    food_nutrients, \* get_food_nutrition: result["foodNutrients"] being classified
    pos,            \* get_food_nutrition: position of the loop in food_nutrients
    nutrition,      \* get_food_nutrition: nutrition_summary["nutrition"] so far
    placed,         \* get_food_nutrition: <<position, bucket>> of every record stored
    tasks,          \* mcp_server: the concurrent tool calls, each with its position
    created,        \* mcp_server: how many USDAClient objects get_client constructed
    posts,          \* mcp_bridge: POST requests handle_call_tool sent for this call
    answer,         \* mcp_bridge: how the HTTP server answered the POST
    content,        \* mcp_bridge: what handle_call_tool gave back to its caller
    initialized     \* USDAClient: initialize() has run on the process's client

clientVars == <<process, api_key, client, mcp_client, started>>
taskVars == <<tasks, created>>
bridgeVars == <<posts, answer, content>>
modelVars == <<food_nutrients, pos, nutrition, placed, tasks, created,
               posts, answer, content>>
classVars == <<food_nutrients, pos, nutrition, placed, tasks, created,
               posts, answer, content, initialized>>
vars == <<process, api_key, client, mcp_client, pc, req, attempt_number, attempts,
          sleeps, net_calls, upstream, started, idx, foods_data, fetches,
          response, food_nutrients, pos, nutrition, placed, tasks, created,
          posts, answer, content, initialized>>

(***************************************************************************)
(* Bounds of the model.                                                    *)
(***************************************************************************)
MaxIds == 6          \* longest fdc_ids list given to compare_foods
MaxBatch == 21       \* longest fdc_ids list given to get_multiple_foods
MaxFailures == 3     \* most consecutive failing answers of the upstream API
MaxTail == 3         \* free records around the filler block of a classified list
MaxTasks == 3        \* concurrent tool calls of the MCP server

(***************************************************************************)
(* Program constants.                                                      *)
(***************************************************************************)
StopAfterAttempt == 3
WaitMultiplier == 1
WaitMin == 4
WaitMax == 10
PageSizeCap == 200
MaxBatchFoods == 20
MaxCompareFoods == 5
MaxAnalyzeFoods == 10
MinCompareFoods == 2
SearchFoodsLimit == 10
DemoFoodsLimit == 3
DemoPageSize == 4
OtherNutrientsCap == 10

Min(a, b) == IF a < b THEN a ELSE b
Max(a, b) == IF a > b THEN a ELSE b

RECURSIVE Pow2(_)
Pow2(n) == IF n <= 0 THEN 1 ELSE 2 * Pow2(n - 1)

(***************************************************************************)
(* Python dicts keep insertion order: a dict is a sequence of <<key,       *)
(* value>> pairs with distinct keys.                                       *)
(***************************************************************************)
EmptyDict == << >>
DictKeys(d) == [i \in 1..Len(d) |-> d[i][1]]
DictHas(d, k) == \E i \in 1..Len(d) : d[i][1] = k
DictGet(d, k) == d[CHOOSE i \in 1..Len(d) : d[i][1] = k][2]
DictSet(d, k, v) ==
    IF DictHas(d, k)
    THEN [i \in 1..Len(d) |-> IF d[i][1] = k THEN <<k, v>> ELSE d[i]]
    ELSE Append(d, <<k, v>>)

(***************************************************************************)
(* Exceptions: the type, the text str(e) gives (a sequence of pieces) and, *)
(* for tenacity's RetryError, the type of the exception of the last        *)
(* attempt.                                                                *)
(***************************************************************************)
StatusCodes == {500}
StatusText(s) == CASE s = 400 -> "400"
                   [] s = 404 -> "404"
                   [] s = 422 -> "422"
                   [] s = 500 -> "500"

Exc(type, text) == [type |-> type, text |-> text, cause |-> ""]

NotConfiguredError ==
    Exc("Exception", <<"USDA client not configured - missing API key">>)
USDAApiError(s) == Exc("Exception", <<"USDA API error: ", StatusText(s)>>)
TooManyFoodsError ==
    Exc("ValueError", <<"Maximum 20 foods can be requested at once">>)
TooManyCompareError ==
    Exc("HTTPException", <<"400", ": ", "Maximum 5 foods can be compared">>)
RetryError(last) == [type |-> "RetryError", text |-> << >>, cause |-> last.type]

Str(e) ==
    IF e.type = "RetryError"
    THEN <<"RetryError[<Future state=finished raised ", e.cause, ">]">>
    ELSE e.text

(***************************************************************************)
(* tenacity: wait_exponential(multiplier=1, min=4, max=10) after the       *)
(* attempt numbered n, and stop_after_attempt(3).                          *)
(***************************************************************************)
WaitExponential(n) ==
    Max(Max(0, WaitMin), Min(WaitMultiplier * Pow2(n - 1), WaitMax))

\* variants of StopNow: giving up one attempt early, and one attempt late
StopNowEarly(n) == n >= StopAfterAttempt - 1
StopNowLate(n) == n > StopAfterAttempt
StopNowFifth(n) == n >= StopAfterAttempt + 2

StopNow(n) == n >= StopAfterAttempt

(***************************************************************************)
(* Upstream payloads.  A nutrient record is the upstream                   *)
(* {nutrient: {id, name, unitName}, amount}.                               *)
(***************************************************************************)
MissingAmount == -1     \* the record has no "amount" key
NullAmount == -2        \* "amount": null

Nutrient(id, name, amount, unit) ==
    [id |-> id, name |-> name, amount |-> amount, unitName |-> unit]

Food(fdcId, description, nutrients) ==
    [fdcId |-> fdcId, description |-> description, foodNutrients |-> nutrients]

FoodA == Food(1, "A desc", <<Nutrient(1089, "Iron, Fe", 21, "mg"),
                             Nutrient(1003, "Protein", 31, "g")>>)
FoodB == Food(2, "B desc", <<Nutrient(1003, "Protein", 20, "g"),
                             Nutrient(9999, "Mystery", 5, "mg"),
                             Nutrient(1093, "Sodium, Na", 7, "mg"),
                             Nutrient(1003, "Protein", MissingAmount, "g")>>)
FoodPayloads == {FoodA, FoodB}

\* foods whose iron record carries the name the iron demo looks up
FoodI == Food(3, "I desc", <<Nutrient(1089, "Iron", 3, "mg")>>)
FoodJ == Food(4, "J desc", <<Nutrient(1089, "Iron", 7, "mg"),
                             Nutrient(1003, "Protein", 9, "g")>>)
DemoFoodPayloads == FoodPayloads \cup {FoodI, FoodJ}

\* a food of a search result (every second one is branded; "" stands for
\* no brandOwner), and the search result with n foods
SearchFood(i) == [fdcId |-> 170000 + i, description |-> "food",
                  dataType |-> IF i % 2 = 0 THEN "Branded" ELSE "Foundation",
                  brandOwner |-> IF i % 2 = 0 THEN "Acme" ELSE ""]
SearchPayload(n) == [foods |-> [i \in 1..n |-> SearchFood(i)], totalPages |-> 1,
                     pageSize |-> n, currentPage |-> 1]
\* the upstream finds nothing, a few foods, as many as the endpoint's limit
\* on the foods it returns, or one more
SearchSizes == {0, 1, 2, 10, 11}
SearchPayloads == {SearchPayload(n) : n \in SearchSizes}

BatchPayload(ids) == [i \in 1..Len(ids) |-> Food(ids[i], "food", << >>)]

(***************************************************************************)
(* get_food_nutrition: the static nutrient tables and the classification   *)
(* pass.                                                                   *)
(***************************************************************************)
macro_nutrients == {1008, 1003, 1004, 1005, 1079, 2000}
vitamin_nutrients == {1106, 1162, 1114, 1109, 1185}
mineral_nutrients == {1087, 1089, 1090, 1091, 1092, 1093, 1095}

EmptyNutrition == [macronutrients |-> EmptyDict, vitamins |-> EmptyDict,
                   minerals |-> EmptyDict, other_nutrients |-> << >>]

NutrientData(nutrient) ==
    [name |-> nutrient.name, amount |-> nutrient.amount, unit |-> nutrient.unitName]

\* variant of Categorize: the vitamin and mineral tables swapped
CategorizeSwapped(nutrient_id) ==
    IF nutrient_id \in macro_nutrients THEN "macronutrients"
    ELSE IF nutrient_id \in mineral_nutrients THEN "vitamins"
    ELSE IF nutrient_id \in vitamin_nutrients THEN "minerals"
    ELSE "other_nutrients"

\* the branch of the if / elif chain a record with a non-null amount takes
Categorize(nutrient_id) ==
    IF nutrient_id \in macro_nutrients THEN "macronutrients"
    ELSE IF nutrient_id \in vitamin_nutrients THEN "vitamins"
    ELSE IF nutrient_id \in mineral_nutrients THEN "minerals"
    ELSE "other_nutrients"

\* variant of HasAmount: a truthiness test, which also drops amount 0
HasAmountTruthy(nutrient) == nutrient.amount \notin {MissingAmount, NullAmount, 0}

\* nutrient.get("amount") is not None
HasAmount(nutrient) == nutrient.amount \notin {MissingAmount, NullAmount}

\* variant of OtherHasRoom: the cap tested one entry too late
OtherHasRoomLate(nutrition_) == Len(nutrition_.other_nutrients) <= OtherNutrientsCap

\* len(nutrition_summary["other_nutrients"]) < 10
OtherHasRoom(nutrition_) == Len(nutrition_.other_nutrients) < OtherNutrientsCap

\* where one record goes: a bucket, or "dropped" (null amount, or no room
\* left in other_nutrients)
Placement(nutrition_, nutrient) ==
    IF ~HasAmount(nutrient) THEN "dropped"
    ELSE IF Categorize(nutrient.id) = "other_nutrients" /\ ~OtherHasRoom(nutrition_)
    THEN "dropped"
    ELSE Categorize(nutrient.id)

\* variant of ClassifyStep: a name already in its bucket keeps its first entry
ClassifyStepKeepFirst(nutrition_, nutrient) ==
    LET b == Placement(nutrition_, nutrient)
        d == NutrientData(nutrient)
    IN  CASE b = "dropped" -> nutrition_
          [] b = "other_nutrients" ->
                [nutrition_ EXCEPT !.other_nutrients = Append(@, d)]
          [] OTHER -> IF DictHas(nutrition_[b], nutrient.name) THEN nutrition_
                      ELSE [nutrition_ EXCEPT ![b] = DictSet(@, nutrient.name, d)]

\* one iteration of the loop over food_nutrients
ClassifyStep(nutrition_, nutrient) ==
    LET b == Placement(nutrition_, nutrient)
        d == NutrientData(nutrient)
    IN  CASE b = "dropped" -> nutrition_
          [] b = "other_nutrients" ->
                [nutrition_ EXCEPT !.other_nutrients = Append(@, d)]
          [] OTHER -> [nutrition_ EXCEPT ![b] = DictSet(@, nutrient.name, d)]

RECURSIVE ClassifyFrom(_, _, _)
ClassifyFrom(nutrition_, nutrients, i) ==
    IF i > Len(nutrients) THEN nutrition_
    ELSE ClassifyFrom(ClassifyStep(nutrition_, nutrients[i]), nutrients, i + 1)

\* the whole loop over food_nutrients
Classify(nutrients) == ClassifyFrom(EmptyNutrition, nutrients, 1)

(***************************************************************************)
(* compare_foods: the allow-list of key nutrients and the comparison       *)
(* structure built from the fetched foods.                                 *)
(***************************************************************************)
\* variant of key_nutrients: an id outside the allow-list added to it
key_nutrients_extra == <<<<1008, "Energy (kcal)">>, <<1003, "Protein">>,
                         <<1004, "Total Fat">>, <<1005, "Carbohydrate">>,
                         <<1079, "Fiber">>, <<1087, "Calcium">>,
                         <<1089, "Iron">>, <<1162, "Vitamin C">>,
                         <<9999, "Mystery">>>>

\* variant of key_nutrients: Iron listed under the id of Magnesium
key_nutrients_shifted == <<<<1008, "Energy (kcal)">>, <<1003, "Protein">>,
                           <<1004, "Total Fat">>, <<1005, "Carbohydrate">>,
                           <<1079, "Fiber">>, <<1087, "Calcium">>,
                           <<1090, "Iron">>, <<1162, "Vitamin C">>>>

key_nutrients == <<<<1008, "Energy (kcal)">>, <<1003, "Protein">>,
                   <<1004, "Total Fat">>, <<1005, "Carbohydrate">>,
                   <<1079, "Fiber">>, <<1087, "Calcium">>,
                   <<1089, "Iron">>, <<1162, "Vitamin C">>>>

\* nutrient.get("amount", 0): only a missing key takes the default
AmountOrZero(nutrient) ==
    IF nutrient.amount = MissingAmount THEN 0 ELSE nutrient.amount

EmptyComparison == [foods |-> << >>, nutrient_comparison |-> EmptyDict]

\* variant of KeyNutrientStep: the entry put at the head of its row
KeyNutrientStepPrepend(acc, food, nutrient) ==
    IF ~DictHas(key_nutrients, nutrient.id) THEN acc
    ELSE LET nutrient_name == DictGet(key_nutrients, nutrient.id)
             amount == AmountOrZero(nutrient)
             unit == nutrient.unitName
             row == IF DictHas(acc.matrix, nutrient_name)
                    THEN DictGet(acc.matrix, nutrient_name) ELSE << >>
         IN  [nutrients |-> DictSet(acc.nutrients, nutrient_name,
                                    [amount |-> amount, unit |-> unit]),
              matrix |-> DictSet(acc.matrix, nutrient_name,
                                 <<[food |-> food.description,
                                    amount |-> amount,
                                    unit |-> unit]>> \o row)]

\* one iteration of the loop over the nutrients of one food; acc holds the
\* food_summary's nutrients and the comparison matrix
KeyNutrientStep(acc, food, nutrient) ==
    IF ~DictHas(key_nutrients, nutrient.id) THEN acc
    ELSE LET nutrient_name == DictGet(key_nutrients, nutrient.id)
             amount == AmountOrZero(nutrient)
             unit == nutrient.unitName
             row == IF DictHas(acc.matrix, nutrient_name)
                    THEN DictGet(acc.matrix, nutrient_name) ELSE << >>
         IN  [nutrients |-> DictSet(acc.nutrients, nutrient_name,
                                    [amount |-> amount, unit |-> unit]),
              matrix |-> DictSet(acc.matrix, nutrient_name,
                                 Append(row, [food |-> food.description,
                                              amount |-> amount,
                                              unit |-> unit]))]

RECURSIVE KeyNutrientsFrom(_, _, _)
KeyNutrientsFrom(acc, food, i) ==
    IF i > Len(food.foodNutrients) THEN acc
    ELSE KeyNutrientsFrom(KeyNutrientStep(acc, food, food.foodNutrients[i]),
                          food, i + 1)

\* one iteration of the loop over foods_data
CompareFoodStep(comparison, food) ==
    LET acc == KeyNutrientsFrom([nutrients |-> EmptyDict,
                                 matrix |-> comparison.nutrient_comparison],
                                food, 1)
        food_summary == [fdc_id |-> food.fdcId,
                         description |-> food.description,
                         nutrients |-> acc.nutrients]
    IN  [foods |-> Append(comparison.foods, food_summary),
         nutrient_comparison |-> acc.matrix]

RECURSIVE CompareFrom(_, _, _)
CompareFrom(comparison, foods, i) ==
    IF i > Len(foods) THEN comparison
    ELSE CompareFrom(CompareFoodStep(comparison, foods[i]), foods, i + 1)

BuildComparison(foods) ==
    LET c == CompareFrom(EmptyComparison, foods, 1)
    IN  [foods |-> c.foods,
         nutrient_comparison |-> c.nutrient_comparison,
         summary |-> [total_foods_compared |-> Len(foods)]]

(***************************************************************************)
(* Responses.  None is the empty tuple, a present value x is <<x>>; an     *)
(* error or a message is the sequence of the pieces of its text.           *)
(***************************************************************************)
None == << >>
Some(x) == <<x>>

Resp(kind, success, data, error, tool, message, status, exc) ==
    [kind |-> kind, success |-> success, data |-> data, error |-> error,
     tool |-> tool, message |-> message, status |-> status, exc |-> exc]

NoResponse == Resp("none", FALSE, None, None, "", None, 0, None)

\* mcp_bridge: no answer of the HTTP server yet, and no result of the call yet
NoAnswer == [kind |-> "none", response |-> NoResponse]
NoContent == [raised |-> FALSE, items |-> << >>]

\* variant of MCPResponse: the error field defaults to an empty text, not null
MCPResponseEmptyError(success, data, error, tool, message) ==
    Resp("envelope", success, data, IF error = None THEN <<"">> ELSE error,
         tool, message, 200, None)

\* MCPResponse(success=..., data=..., error=..., tool=..., message=...)
MCPResponse(success, data, error, tool, message) ==
    Resp("envelope", success, data, error, tool, message, 200, None)

\* FastAPI rejects a body that fails the pydantic model with 422
ValidationError(tool) ==
    Resp("validation_error", FALSE, None, <<"validation error">>, tool, None, 422, None)

\* the dict an MCP tool returns: a result, or {"error": ...}
McpResult(data, tool) == Resp("dict", TRUE, Some(data), None, tool, None, 0, None)
McpError(error, tool) == Resp("dict", FALSE, None, error, tool, None, 0, None)

\* a direct call of a USDAClient method returns or raises
Returned(data, tool) == Resp("returned", TRUE, Some(data), None, tool, None, 0, None)
Raised(e, tool) == Resp("raised", FALSE, None, Str(e), tool, None, 0, Some(e))

NotConfiguredText ==
    <<"USDA API key not configured. Please set FDC_API_KEY environment variable.">>

(***************************************************************************)
(* Requests and the scripted upstream API.                                 *)
(***************************************************************************)
FdcId(i) == 170000 + i
IdList(n) == [i \in 1..n |-> FdcId(i)]
PageSizes == {1, 25, 200, 250}
Timeout == 0
FailureKinds == StatusCodes \cup {Timeout}

\* via: "client" (a USDAClient method called directly), "mcp" (an MCP tool)
\* or "http" (an endpoint); validated: the body went through the pydantic
\* model of the route before the handler ran
Request(via, tool, fdc_ids, page_size, validated) ==
    [via |-> via, tool |-> tool, query |-> "apple", fdc_ids |-> fdc_ids,
     page_size |-> page_size, validated |-> validated]

NoRequest == Request("", "", << >>, 0, FALSE)

\* the upstream API fails the first Len(failures) calls it receives for one
\* _make_request, each with an HTTP status or a timeout, then answers payload
Scripts(payloads) ==
    {[failures |-> f, payload |-> p] :
        f \in UNION {[1..k -> FailureKinds] : k \in 0..MaxFailures},
        p \in payloads}

NoScript == [failures |-> << >>, payload |-> << >>]

\* the answers to the batch request of analyze_nutrition: a food for every
\* id, or for every id but the last
AnalyzePayloads(ids) ==
    {BatchPayload(SubSeq(ids, 1, k)) : k \in {Len(ids), Max(Len(ids) - 1, 0)}}

PayloadsFor(r) ==
    CASE r.tool \in {"search_foods", "demo_vegetarian_iron"} -> SearchPayloads
      [] r.tool \in {"get_food_details", "get_food_nutrition", "compare_foods"}
            -> FoodPayloads
      [] r.tool \in {"get_multiple_foods"} -> {BatchPayload(r.fdc_ids)}
      [] r.tool \in {"analyze_nutrition"} -> AnalyzePayloads(r.fdc_ids)

\* the scripts of one operation of request r: the upstream API is consulted
\* only when the client sends
ScriptsFor(r, sends) ==
    IF sends THEN Scripts(PayloadsFor(r)) ELSE {NoScript}

(***************************************************************************)
(* USDAClient.                                                             *)
(***************************************************************************)
\* the USDAClient object a request uses
Handle(r) == IF r.via = "mcp" THEN mcp_client ELSE client

\* bool(self.api_key and self.client)
is_configured(handle) == api_key /\ handle \in {"open", "closed"}

\* the client of request r gets as far as self.client.request on an open handle
Sends(r) == is_configured(Handle(r)) /\ Handle(r) = "open"

\* initialize(): the handle is created only when the key is present
initialize(handle) == IF api_key THEN "open" ELSE handle

\* variant of close: the handle is cleared once closed
closeClearsHandle(handle) == IF handle \in {"open", "closed"} THEN "None" ELSE handle

\* close(): aclose() on the handle, which stays assigned
close(handle) == IF handle \in {"open", "closed"} THEN "closed" ELSE handle

\* variant of SearchPageSize: the page size passed on as given
SearchPageSizeUncapped(page_size) == page_size

\* search_data["pageSize"]
SearchPageSize(page_size) == Min(page_size, PageSizeCap)

\* variant of TooManyFoods: the guard off by one
TooManyFoodsOffByOne(fdc_ids) == Len(fdc_ids) > MaxBatchFoods + 1

\* get_multiple_foods: the guard before the request
TooManyFoods(fdc_ids) == Len(fdc_ids) > MaxBatchFoods

\* variant of HandleAfterRequest: the handle used as a context manager,
\* closed when the request is over
HandleAfterRequestClosed(handle) == IF handle = "open" THEN "closed" ELSE handle

\* self.client.request(...) in _make_request: the handle is used, neither
\* reassigned nor closed
HandleAfterRequest(handle) == handle

NetCallsOfOperation == Cardinality({i \in 1..Len(attempts) : attempts[i].sent})

Attempt(sent, ok, exc, payload, status) ==
    [sent |-> sent, ok |-> ok, exc |-> exc, payload |-> payload,
     status |-> status,
     pageSize |-> IF sent /\ (req.tool = "search_foods"
                                  \/ (req.tool = "demo_vegetarian_iron" /\ idx = 0))
                  THEN SearchPageSize(req.page_size) ELSE 0]

\* the body of _make_request, run once: what this attempt does
MakeRequestOnce ==
    IF ~is_configured(Handle(req))
    THEN Attempt(FALSE, FALSE, NotConfiguredError, None, 0)
    ELSE IF Handle(req) = "closed"
    THEN Attempt(FALSE, FALSE,
                 Exc("RuntimeError",
                     <<"Cannot send a request, as the client has been closed.">>),
                 None, 0)
    ELSE LET k == NetCallsOfOperation + 1
         IN  IF k <= Len(upstream.failures)
             THEN LET f == upstream.failures[k]
                  IN  IF f \in StatusCodes
                      THEN Attempt(TRUE, FALSE, USDAApiError(f), None, f)
                      ELSE Attempt(TRUE, FALSE,
                                   Exc("ReadTimeout",
                                       <<"The read operation timed out">>),
                                   None, 0)
             ELSE Attempt(TRUE, TRUE, Exc("", << >>), Some(upstream.payload), 200)

(***************************************************************************)
(* The handlers' reshaping of a successful result.                         *)
(***************************************************************************)
\* variant of FoodsToFormat: the whole list, no limit
FoodsToFormatAll(foods) == foods

\* result["foods"][:10]
FoodsToFormat(foods) == SubSeq(foods, 1, Min(SearchFoodsLimit, Len(foods)))

\* the entry of formatted_foods built from one upstream food
FormatFood(food) ==
    [fdc_id |-> food.fdcId, description |-> food.description,
     data_type |-> food.dataType, brand_owner |-> food.brandOwner]

\* variant of SearchResponseData: no branch for an empty result
SearchResponseDataAlwaysFound(result, query) ==
    [success |-> TRUE,
     total_results |-> result.totalPages * result.pageSize,
     current_page |-> result.currentPage,
     foods |-> [i \in 1..Len(FoodsToFormat(result.foods)) |->
                    FormatFood(FoodsToFormat(result.foods)[i])],
     error |-> None,
     message |-> <<"Found ", Len(FoodsToFormat(result.foods)),
                   " foods matching '", query, "'">>]

\* mcp_http_server.search_foods: response_data
SearchResponseData(result, query) ==
    IF Len(result.foods) > 0
    THEN LET formatted_foods ==
                 [i \in 1..Len(FoodsToFormat(result.foods)) |->
                      FormatFood(FoodsToFormat(result.foods)[i])]
         IN  [success |-> TRUE,
              total_results |-> result.totalPages * result.pageSize,
              current_page |-> result.currentPage,
              foods |-> formatted_foods,
              error |-> None,
              message |-> <<"Found ", Len(formatted_foods),
                            " foods matching '", query, "'">>]
    ELSE [success |-> FALSE, total_results |-> 0, current_page |-> 0,
          foods |-> << >>, error |-> <<"No foods found">>, message |-> None]

\* mcp_http_server.get_food_nutrition: nutrition_summary
NutritionSummaryOf(result, nutrition_) ==
    [food_info |-> [fdc_id |-> result.fdcId, description |-> result.description],
     nutrition |-> nutrition_]

NutritionSummary(result) ==
    NutritionSummaryOf(result, Classify(result.foodNutrients))

\* variant of CompareResponse: no check for an empty foods_data
CompareResponseUnchecked(foods) ==
    MCPResponse(TRUE, Some(BuildComparison(foods)), None, "compare_foods",
                <<"Successfully compared ", Len(foods), " foods">>)

\* mcp_http_server.compare_foods after the fetch loop
CompareResponse(foods) ==
    IF Len(foods) = 0
    THEN MCPResponse(FALSE, None, <<"No valid food data found for comparison">>,
                     "compare_foods", None)
    ELSE MCPResponse(TRUE, Some(BuildComparison(foods)), None, "compare_foods",
                     <<"Successfully compared ", Len(foods), " foods">>)

\* mcp_server.analyze_nutrition: the nutrients of one food, keyed by name
\* (nutrients_of_interest not given); a record without a name is skipped
RECURSIVE AnalysisNutrientsFrom(_, _, _)
AnalysisNutrientsFrom(acc, nutrients, i) ==
    IF i > Len(nutrients) THEN acc
    ELSE AnalysisNutrientsFrom(
             IF nutrients[i].name = "" THEN acc
             ELSE DictSet(acc, nutrients[i].name,
                          [amount |-> nutrients[i].amount,
                           unit |-> nutrients[i].unitName]),
             nutrients, i + 1)

FoodAnalysis(food) ==
    [name |-> food.description, fdc_id |-> food.fdcId,
     nutrients |-> AnalysisNutrientsFrom(EmptyDict, food.foodNutrients, 1)]

\* mcp_server.analyze_nutrition: the analysis of the foods of the batch
Analysis(foods) ==
    [foods_analyzed |-> Len(foods),
     comparison |-> [i \in 1..Len(foods) |-> FoodAnalysis(foods[i])]]

\* demo_vegetarian_iron: foods = search_result.data["foods"][:3], and of
\* these the ones the loop fetches (a truthy fdc_id)
DemoFoods(search_data) ==
    SelectSeq(SubSeq(search_data.foods, 1,
                     Min(DemoFoodsLimit, Len(search_data.foods))),
              LAMBDA food : food.fdc_id # 0)

\* iron = minerals.get("Iron", {}).get("amount", 0)
IronOf(summary) ==
    IF DictHas(summary.nutrition.minerals, "Iron")
    THEN DictGet(summary.nutrition.minerals, "Iron").amount
    ELSE 0

\* the iron_sources entry of a food whose nutrition was fetched
IronSource(food, summary) == [food |-> food.description, iron_mg |-> IronOf(summary)]

\* iron_sources.sort(key=iron_mg, reverse=True): a stable sort, larger first
RECURSIVE SortByIron(_)
SortByIron(sources) ==
    IF Len(sources) <= 1 THEN sources
    ELSE LET rest == SortByIron(Tail(sources))
             head == Head(sources)
             k == Cardinality({i \in 1..Len(rest) : rest[i].iron_mg > head.iron_mg})
         IN  SubSeq(rest, 1, k) \o <<head>> \o SubSeq(rest, k + 1, Len(rest))

\* demo_vegetarian_iron: iron_sources after the loop and the sort, from the
\* entries of the foods whose nutrition was fetched; only iron > 0 is kept
IronSources(entries) == SortByIron(SelectSeq(entries, LAMBDA e : e.iron_mg > 0))

\* demo_vegetarian_iron: demo_response
DemoResponse(iron_sources) ==
    [foods_analyzed |-> Len(iron_sources),
     iron_rich_foods |-> iron_sources,
     best_source |-> iron_sources[1].food]

\* iron_sources[0] on an empty list
IndexError == Exc("IndexError", <<"list index out of range">>)

\* demo_vegetarian_iron: the envelope when the search envelope is a failure
DemoSearchFailed ==
    MCPResponse(FALSE, None, <<"Search failed">>, "demo_vegetarian_iron", None)

\* demo_vegetarian_iron: the envelope after the loop; building demo_response
\* reads iron_sources[0], and the handler's except branch answers str(e)
DemoComplete(entries) ==
    IF Len(IronSources(entries)) = 0
    THEN MCPResponse(FALSE, None, Str(IndexError), "demo_vegetarian_iron", None)
    ELSE MCPResponse(TRUE, Some(DemoResponse(IronSources(entries))), None,
                     "demo_vegetarian_iron", <<"Vegetarian iron guide complete!">>)

\* what the caller gets when the upstream operation returned result
OnReturn(r, result) ==
    CASE r.via = "client" -> Returned(result, r.tool)
      [] r.via = "mcp" /\ r.tool = "search_foods" -> McpResult(result, r.tool)
      [] r.via = "mcp" /\ r.tool = "get_multiple_foods"
            -> McpResult([foods |-> result], r.tool)
      [] r.via = "mcp" /\ r.tool = "analyze_nutrition"
            -> McpResult(Analysis(result), r.tool)
      [] r.via = "http" /\ r.tool = "search_foods"
            -> MCPResponse(TRUE, Some(SearchResponseData(result, r.query)), None,
                           "search_foods", None)
      [] r.via = "http" /\ r.tool = "get_food_nutrition"
            -> MCPResponse(TRUE, Some(NutritionSummary(result)), None,
                           "get_food_nutrition",
                           <<"Retrieved nutrition data for ", result.description>>)

\* variant of OnRaise: no handler catches, the exception reaches the caller
OnRaiseUncaught(r, e) == Raised(e, r.tool)

\* what the caller gets when the upstream operation raised e
OnRaise(r, e) ==
    CASE r.via = "client" -> Raised(e, r.tool)
      [] r.via = "mcp" /\ r.tool = "search_foods"
            -> McpError(<<"Search failed: ">> \o Str(e), r.tool)
      [] r.via = "mcp" /\ r.tool = "get_multiple_foods"
            -> McpError(<<"Failed to get multiple foods: ">> \o Str(e), r.tool)
      [] r.via = "mcp" /\ r.tool = "analyze_nutrition"
            -> McpError(<<"Nutrition analysis failed: ">> \o Str(e), r.tool)
      [] r.via = "http" /\ r.tool = "search_foods"
            -> MCPResponse(FALSE, None, <<"Search failed: ">> \o Str(e),
                           "search_foods", None)
      [] r.via = "http" /\ r.tool = "get_food_nutrition"
            -> MCPResponse(FALSE, None,
                           <<"Failed to get nutrition data: ">> \o Str(e),
                           "get_food_nutrition", None)
      [] r.via = "http" /\ r.tool = "compare_foods"
            -> MCPResponse(FALSE, None, <<"Failed to compare foods: ">> \o Str(e),
                           "compare_foods", None)

(***************************************************************************)
(* The tool listings and the routes of the HTTP server.                    *)
(***************************************************************************)
\* GET /tools: the names of the ToolInfo entries
list_tools == {"search_foods", "get_food_nutrition", "compare_foods",
               "nutrition_question_helper", "get_food_categories"}

\* mcp_bridge: the names of the types.Tool entries
handle_list_tools == {"search_foods", "get_food_nutrition", "compare_foods",
                      "nutrition_question_helper"}

\* the @app.post / @app.get decorators under /tools/
tool_routes == {<<"POST", "search_foods">>, <<"POST", "get_food_nutrition">>,
                <<"POST", "compare_foods">>, <<"GET", "get_food_categories">>}

\* the router's answer to a path without a route, and to a path whose route
\* has another method
NotFound(tool) ==
    Resp("http_error", FALSE, None, <<"Not Found">>, tool, None, 404, None)
MethodNotAllowed(tool) ==
    Resp("http_error", FALSE, None, <<"Method Not Allowed">>, tool, None, 405, None)

\* the answer to method /tools/{name} when no route matches both
RouterAnswer(method, name) ==
    IF \E m \in {"GET", "POST"} : <<m, name>> \in tool_routes
    THEN MethodNotAllowed(name)
    ELSE NotFound(name)

(***************************************************************************)
(* Request validation of the route layer (pydantic models).                *)
(***************************************************************************)
\* SearchParams.page_size: ge=1, le=200
SearchParamsValid(page_size) == page_size >= 1 /\ page_size <= PageSizeCap

\* CompareFoodsParams.fdc_ids: min_length=2, max_length=5
CompareFoodsParamsValid(fdc_ids) ==
    Len(fdc_ids) >= MinCompareFoods /\ Len(fdc_ids) <= MaxCompareFoods

\* variant of TooManyToCompare: the guard off by one
TooManyToCompareOffByOne(fdc_ids) == Len(fdc_ids) > MaxCompareFoods + 1

\* compare_foods: the handler's own guard
TooManyToCompare(fdc_ids) == Len(fdc_ids) > MaxCompareFoods

(***************************************************************************)
(* The state machine.                                                      *)
(***************************************************************************)
\* a tool call of the MCP server that has not started
NoTask == [pc |-> "idle", tool |-> "", got |-> "none"]
NoTasks == [t \in 1..MaxTasks |-> NoTask]

Init ==
    /\ process \in {"http", "mcp", "client"}
    /\ api_key \in BOOLEAN
    /\ client = "None"
    /\ mcp_client = "None"
    /\ started = FALSE
    /\ pc = "idle"
    /\ req = NoRequest
    /\ attempt_number = 0
    /\ attempts = << >>
    /\ sleeps = << >>
    /\ net_calls = 0
    /\ upstream = NoScript
    /\ idx = 0
    /\ foods_data = << >>
    /\ fetches = << >>
    /\ response = NoResponse
    /\ food_nutrients = << >>
    /\ pos = 0
    /\ nutrition = EmptyNutrition
    /\ placed = {}
    /\ tasks = NoTasks
    /\ created = 0
    /\ posts = 0
    /\ answer = NoAnswer
    /\ content = NoContent
    /\ initialized = FALSE

Idle == pc = "idle"

\* a request is accepted and ends before its first upstream operation
Reject(r, resp) ==
    /\ req' = r
    /\ pc' = "done"
    /\ response' = resp
    /\ attempt_number' = 0
    /\ attempts' = << >>
    /\ sleeps' = << >>
    /\ net_calls' = 0
    /\ upstream' = NoScript
    /\ idx' = 0
    /\ foods_data' = << >>
    /\ fetches' = << >>

\* a request is accepted and calls _make_request for the first time
Begin(r, i, sends) ==
    /\ req' = r
    /\ pc' = "attempt"
    /\ response' = NoResponse
    /\ attempt_number' = 1
    /\ attempts' = << >>
    /\ sleeps' = << >>
    /\ net_calls' = 0
    /\ \E s \in ScriptsFor(r, sends) : upstream' = s
    /\ idx' = i
    /\ foods_data' = << >>
    /\ fetches' = << >>

startup_event ==
    /\ process = "http"
    /\ Idle /\ ~started
    /\ client' = initialize(client)
    /\ started' = TRUE
    /\ initialized' = TRUE
    /\ UNCHANGED modelVars
    /\ UNCHANGED <<process, api_key, mcp_client, pc, req, attempt_number, attempts, sleeps,
                   net_calls, upstream, idx, foods_data, fetches, response>>

shutdown_event ==
    /\ process = "http"
    /\ Idle /\ started
    /\ client' = close(client)
    /\ started' = FALSE
    /\ UNCHANGED classVars
    /\ UNCHANGED <<process, api_key, mcp_client, pc, req, attempt_number, attempts, sleeps,
                   net_calls, upstream, idx, foods_data, fetches, response>>

\* USDAClient.initialize, called directly
ClientInitialize ==
    /\ process = "client"
    /\ Idle
    /\ client' = initialize(client)
    /\ initialized' = TRUE
    /\ UNCHANGED modelVars
    /\ UNCHANGED <<process, api_key, mcp_client, started, pc, req, attempt_number,
                   attempts, sleeps, net_calls, upstream, idx, foods_data, fetches,
                   response>>

\* USDAClient.close, called directly
ClientClose ==
    /\ process = "client"
    /\ Idle
    /\ client' = close(client)
    /\ UNCHANGED classVars
    /\ UNCHANGED <<process, api_key, mcp_client, started, pc, req, attempt_number,
                   attempts, sleeps, net_calls, upstream, idx, foods_data, fetches,
                   response>>

\* USDAClient.search_foods, called directly
ClientSearchFoods(page_size) ==
    /\ process = "client"
    /\ Idle
    /\ LET r == Request("client", "search_foods", << >>, page_size, FALSE)
       IN  Begin(r, 0, Sends(r))
    /\ UNCHANGED classVars
    /\ UNCHANGED <<process, api_key, client, mcp_client, started>>

\* USDAClient.health_check, called directly: one GET with no retry, any
\* exception gives False
ClientHealthCheck ==
    /\ process = "client"
    /\ Idle
    /\ req' = Request("client", "health_check", << >>, 1, FALSE)
    /\ pc' = "done"
    /\ \E outcome \in FailureKinds \cup {200} :
          /\ response' = Returned(
                            [healthy |-> /\ is_configured(client)
                                         /\ client = "open"
                                         /\ outcome = 200],
                            "health_check")
          /\ net_calls' = IF is_configured(client) /\ client = "open" THEN 1 ELSE 0
          /\ client' = IF is_configured(client) /\ client = "open"
                       THEN HandleAfterRequest(client) ELSE client
    /\ attempt_number' = 0
    /\ attempts' = << >>
    /\ sleeps' = << >>
    /\ upstream' = NoScript
    /\ idx' = 0
    /\ foods_data' = << >>
    /\ fetches' = << >>
    /\ UNCHANGED classVars
    /\ UNCHANGED <<process, api_key, mcp_client, started>>

\* USDAClient.get_food_details, called directly
ClientGetFoodDetails ==
    /\ process = "client"
    /\ Idle
    /\ LET r == Request("client", "get_food_details", IdList(1), 0, FALSE)
       IN  Begin(r, 0, Sends(r))
    /\ UNCHANGED classVars
    /\ UNCHANGED <<process, api_key, client, mcp_client, started>>

\* USDAClient.get_multiple_foods, called directly
ClientGetMultipleFoods(fdc_ids) ==
    /\ process = "client"
    /\ Idle
    /\ LET r == Request("client", "get_multiple_foods", fdc_ids, 0, FALSE)
       IN  IF TooManyFoods(fdc_ids)
           THEN Reject(r, Raised(TooManyFoodsError, r.tool))
           ELSE Begin(r, 0, Sends(r))
    /\ UNCHANGED classVars
    /\ UNCHANGED <<process, api_key, client, mcp_client, started>>

\* mcp_server.get_client: the global after the call
get_client == IF mcp_client = "None" THEN initialize("nohandle") ELSE mcp_client

\* mcp_server.search_foods
McpSearchFoods(page_size) ==
    /\ process = "mcp"
    /\ Idle
    /\ mcp_client' = get_client
    /\ LET r == Request("mcp", "search_foods", << >>, page_size, FALSE)
       IN  IF ~is_configured(get_client)
           THEN Reject(r, McpError(NotConfiguredText, r.tool))
           ELSE Begin(r, 0, get_client = "open")
    /\ initialized' = (initialized \/ mcp_client' # "None")
    /\ UNCHANGED modelVars
    /\ UNCHANGED <<process, api_key, client, started>>

\* mcp_server.get_multiple_foods
McpGetMultipleFoods(fdc_ids) ==
    /\ process = "mcp"
    /\ Idle
    /\ LET r == Request("mcp", "get_multiple_foods", fdc_ids, 0, FALSE)
       IN  IF Len(fdc_ids) > MaxBatchFoods
           THEN /\ Reject(r, McpError(<<"Maximum 20 foods can be requested at once">>,
                                      r.tool))
                /\ mcp_client' = mcp_client
           ELSE /\ mcp_client' = get_client
                /\ IF ~is_configured(get_client)
                   THEN Reject(r, McpError(NotConfiguredText, r.tool))
                   ELSE IF TooManyFoods(fdc_ids)
                   THEN Reject(r, OnRaise(r, TooManyFoodsError))
                   ELSE Begin(r, 0, get_client = "open")
    /\ initialized' = (initialized \/ mcp_client' # "None")
    /\ UNCHANGED modelVars
    /\ UNCHANGED <<process, api_key, client, started>>

\* variant of TooManyToAnalyze: the guard off by one
TooManyToAnalyzeOffByOne(fdc_ids) == Len(fdc_ids) > MaxAnalyzeFoods + 1

\* analyze_nutrition: the guard before get_client
TooManyToAnalyze(fdc_ids) == Len(fdc_ids) > MaxAnalyzeFoods

\* mcp_server.analyze_nutrition
McpAnalyzeNutrition(fdc_ids) ==
    /\ process = "mcp"
    /\ Idle
    /\ LET r == Request("mcp", "analyze_nutrition", fdc_ids, 0, FALSE)
       IN  IF TooManyToAnalyze(fdc_ids)
           THEN /\ Reject(r, McpError(<<"Maximum 10 foods can be analyzed at once">>,
                                      r.tool))
                /\ mcp_client' = mcp_client
           ELSE /\ mcp_client' = get_client
                /\ IF ~is_configured(get_client)
                   THEN Reject(r, McpError(NotConfiguredText, r.tool))
                   ELSE Begin(r, 0, get_client = "open")
    /\ initialized' = (initialized \/ mcp_client' # "None")
    /\ UNCHANGED modelVars
    /\ UNCHANGED <<process, api_key, client, started>>

\* POST /tools/search_foods
HttpSearchFoods(page_size) ==
    /\ process = "http"
    /\ Idle /\ started
    /\ LET r == Request("http", "search_foods", << >>, page_size, TRUE)
       IN  IF ~SearchParamsValid(page_size)
           THEN Reject(r, ValidationError(r.tool))
           ELSE Begin(r, 0, Sends(r))
    /\ UNCHANGED classVars
    /\ UNCHANGED <<process, api_key, client, mcp_client, started>>

\* POST /tools/get_food_nutrition
HttpGetFoodNutrition ==
    /\ process = "http"
    /\ Idle /\ started
    /\ LET r == Request("http", "get_food_nutrition", IdList(1), 0, TRUE)
       IN  Begin(r, 0, Sends(r))
    /\ UNCHANGED classVars
    /\ UNCHANGED <<process, api_key, client, mcp_client, started>>

\* POST /tools/compare_foods (validated), or the handler called with a
\* CompareFoodsParams that skipped validation
HttpCompareFoods(fdc_ids, validated) ==
    /\ process = "http"
    /\ Idle /\ started
    /\ LET r == Request("http", "compare_foods", fdc_ids, 0, validated)
       IN  IF validated /\ ~CompareFoodsParamsValid(fdc_ids)
           THEN Reject(r, ValidationError(r.tool))
           ELSE IF TooManyToCompare(fdc_ids)
           THEN Reject(r, OnRaise(r, TooManyCompareError))
           ELSE IF Len(fdc_ids) = 0
           THEN Reject(r, CompareResponse(<< >>))
           ELSE Begin(r, 1, Sends(r))
    /\ UNCHANGED classVars
    /\ UNCHANGED <<process, api_key, client, mcp_client, started>>

\* GET /demo/vegetarian-iron: the handler calls the search_foods handler,
\* then the get_food_nutrition handler for each of the first foods found
HttpDemoVegetarianIron ==
    /\ process = "http"
    /\ Idle /\ started
    /\ LET r == Request("http", "demo_vegetarian_iron", << >>, DemoPageSize, TRUE)
       IN  Begin(r, 0, Sends(r))
    /\ UNCHANGED classVars
    /\ UNCHANGED <<process, api_key, client, mcp_client, started>>

\* POST /tools/{name} for a name that has no POST route: the router answers
HttpPostTool(name) ==
    /\ process = "http"
    /\ Idle /\ started
    /\ <<"POST", name>> \notin tool_routes
    /\ Reject(Request("http", name, << >>, 0, TRUE), RouterAnswer("POST", name))
    /\ UNCHANGED classVars
    /\ UNCHANGED <<process, api_key, client, mcp_client, started>>

\* variant of CurrentId: the list walked from its end
CurrentIdReversed(fdc_ids, i) == fdc_ids[Len(fdc_ids) + 1 - i]

\* compare_foods: the id of iteration i of the loop over params.fdc_ids
CurrentId(fdc_ids, i) == fdc_ids[i]

\* variant of LoopContinues: a failed fetch ends the loop
LoopStopsOnFailure(ok, i, fdc_ids) == ok /\ i < Len(fdc_ids)

\* compare_foods: the loop over params.fdc_ids goes on to the next id whether
\* the fetch of the current one returned or raised
LoopContinues(ok, i, fdc_ids) == i < Len(fdc_ids)

\* demo_vegetarian_iron after its search: the foods the loop goes over, and
\* the scripts of the get_food_details call of one iteration
DemoFoodsFound == DemoFoods(SearchResponseData(fetches[1].payload[1], req.query))
DemoDetailScripts == IF Sends(req) THEN Scripts(DemoFoodPayloads) ELSE {NoScript}

\* the running _make_request ended: it returned a.payload (ok) or tenacity
\* raised RetryError; the handler goes on to its next await or to its return
OperationDone(a, ok) ==
    /\ fetches' = Append(fetches,
                         [fdc_id |-> IF req.tool = "compare_foods"
                                     THEN CurrentId(req.fdc_ids, idx)
                                     ELSE IF req.tool = "demo_vegetarian_iron" /\ idx > 0
                                     THEN DemoFoodsFound[idx].fdc_id
                                     ELSE 0,
                          ok |-> ok, payload |-> a.payload])
    /\ IF req.tool = "compare_foods"
       THEN LET fd == IF ok THEN Append(foods_data, a.payload[1]) ELSE foods_data
            IN  /\ foods_data' = fd
                /\ IF LoopContinues(ok, idx, req.fdc_ids)
                   THEN /\ idx' = idx + 1
                        /\ pc' = "attempt"
                        /\ attempt_number' = 1
                        /\ attempts' = << >>
                        /\ sleeps' = << >>
                        /\ \E s \in ScriptsFor(req, Sends(req)) : upstream' = s
                        /\ response' = response
                   ELSE /\ pc' = "done"
                        /\ response' = CompareResponse(fd)
                        /\ attempts' = Append(attempts, a)
                        /\ UNCHANGED <<idx, attempt_number, sleeps, upstream>>
       ELSE IF req.tool = "demo_vegetarian_iron"
       THEN LET foods == IF idx > 0 THEN DemoFoodsFound
                         ELSE IF ok
                         THEN DemoFoods(SearchResponseData(a.payload[1], req.query))
                         ELSE << >>
                fd == IF idx > 0 /\ ok
                      THEN Append(foods_data,
                                  IronSource(foods[idx], NutritionSummary(a.payload[1])))
                      ELSE foods_data
            IN  /\ foods_data' = fd
                /\ IF idx = 0 /\ ~ok
                   THEN /\ pc' = "done"
                        /\ response' = DemoSearchFailed
                        /\ attempts' = Append(attempts, a)
                        /\ UNCHANGED <<idx, attempt_number, sleeps, upstream>>
                   ELSE IF idx < Len(foods)
                   THEN /\ idx' = idx + 1
                        /\ pc' = "attempt"
                        /\ attempt_number' = 1
                        /\ attempts' = << >>
                        /\ sleeps' = << >>
                        /\ \E s \in DemoDetailScripts : upstream' = s
                        /\ response' = response
                   ELSE /\ pc' = "done"
                        /\ response' = DemoComplete(fd)
                        /\ attempts' = Append(attempts, a)
                        /\ UNCHANGED <<idx, attempt_number, sleeps, upstream>>
       ELSE /\ pc' = "done"
            /\ response' = IF ok THEN OnReturn(req, a.payload[1])
                           ELSE OnRaise(req, RetryError(a.exc))
            /\ attempts' = Append(attempts, a)
            /\ UNCHANGED <<idx, attempt_number, sleeps, upstream, foods_data>>

\* the handle of the request's client once attempt a is over
SentOn(a) ==
    /\ client' = IF req.via # "mcp" /\ a.sent
                 THEN HandleAfterRequest(client) ELSE client
    /\ mcp_client' = IF req.via = "mcp" /\ a.sent
                     THEN HandleAfterRequest(mcp_client) ELSE mcp_client

\* an attempt of _make_request returns the upstream payload
AttemptReturns ==
    /\ pc = "attempt"
    /\ MakeRequestOnce.ok
    /\ net_calls' = net_calls + 1
    /\ OperationDone(MakeRequestOnce, TRUE)
    /\ UNCHANGED classVars
    /\ SentOn(MakeRequestOnce)
    /\ UNCHANGED <<process, api_key, started, req>>

\* an attempt raises and tenacity schedules the next one after a wait
AttemptRetries ==
    /\ pc = "attempt"
    /\ ~MakeRequestOnce.ok
    /\ ~StopNow(attempt_number)
    /\ attempts' = Append(attempts, MakeRequestOnce)
    /\ net_calls' = net_calls + (IF MakeRequestOnce.sent THEN 1 ELSE 0)
    /\ sleeps' = Append(sleeps, WaitExponential(attempt_number))
    /\ pc' = "backoff"
    /\ UNCHANGED classVars
    /\ SentOn(MakeRequestOnce)
    /\ UNCHANGED <<process, api_key, started, req, attempt_number,
                   upstream, idx, foods_data, fetches, response>>

\* an attempt raises and tenacity stops: RetryError reaches the caller
AttemptGivesUp ==
    /\ pc = "attempt"
    /\ ~MakeRequestOnce.ok
    /\ StopNow(attempt_number)
    /\ net_calls' = net_calls + (IF MakeRequestOnce.sent THEN 1 ELSE 0)
    /\ OperationDone(MakeRequestOnce, FALSE)
    /\ UNCHANGED classVars
    /\ SentOn(MakeRequestOnce)
    /\ UNCHANGED <<process, api_key, started, req>>

\* the backoff sleep ends and the next attempt starts
Backoff ==
    /\ pc = "backoff"
    /\ attempt_number' = attempt_number + 1
    /\ pc' = "attempt"
    /\ UNCHANGED classVars
    /\ UNCHANGED <<process, api_key, client, mcp_client, started, req, attempts, sleeps,
                   net_calls, upstream, idx, foods_data, fetches, response>>

\* the response is sent and everything the request built is discarded
Respond ==
    /\ pc = "done"
    /\ pc' = "idle"
    /\ req' = NoRequest
    /\ response' = NoResponse
    /\ attempt_number' = 0
    /\ attempts' = << >>
    /\ sleeps' = << >>
    /\ net_calls' = 0
    /\ upstream' = NoScript
    /\ idx' = 0
    /\ foods_data' = << >>
    /\ fetches' = << >>
    /\ UNCHANGED classVars
    /\ UNCHANGED <<process, api_key, client, mcp_client, started>>

Next ==
    \/ startup_event
    \/ shutdown_event
    \/ ClientInitialize
    \/ ClientClose
    \/ \E page_size \in PageSizes : ClientSearchFoods(page_size)
    \/ ClientHealthCheck
    \/ ClientGetFoodDetails
    \/ \E n \in 0..MaxBatch : ClientGetMultipleFoods(IdList(n))
    \/ \E page_size \in PageSizes : McpSearchFoods(page_size)
    \/ \E n \in 0..MaxBatch : McpGetMultipleFoods(IdList(n))
    \/ \E n \in 0..MaxBatch : McpAnalyzeNutrition(IdList(n))
    \/ \E page_size \in PageSizes : HttpSearchFoods(page_size)
    \/ HttpGetFoodNutrition
    \/ HttpDemoVegetarianIron
    \/ \E n \in 0..MaxIds, validated \in BOOLEAN : HttpCompareFoods(IdList(n), validated)
    \/ \E name \in list_tools \cup handle_list_tools : HttpPostTool(name)
    \/ AttemptReturns
    \/ AttemptRetries
    \/ AttemptGivesUp
    \/ Backoff
    \/ Respond

Spec == Init /\ [][Next]_vars

TypeOK ==
    /\ process \in {"http", "mcp", "client"}
    /\ api_key \in BOOLEAN
    /\ client \in {"None", "open", "closed"}
    /\ mcp_client \in {"None", "nohandle", "open"}
    /\ pc \in {"idle", "attempt", "backoff", "done"}
    /\ attempt_number \in 0..StopAfterAttempt
    /\ net_calls \in Nat

(***************************************************************************)
(* The classification pass of get_food_nutrition on its own, one loop      *)
(* iteration per step, over lists of nutrient records: up to MaxTail free  *)
(* records before or after a block of unmatched filler records.            *)
(***************************************************************************)
Filler(n) == [k \in 1..n |-> Nutrient(9000 + k, "Filler", k, "mg")]

TailRecords ==
    {Nutrient(1003, "Protein", 31, "g"),
     Nutrient(1003, "Protein", 20, "g"),
     Nutrient(1162, "Vitamin C, total ascorbic acid", 5, "mg"),
     Nutrient(1089, "Iron, Fe", 2, "mg"),
     Nutrient(1089, "Protein", 31, "g"),
     Nutrient(9999, "Mystery", 5, "mg"),
     Nutrient(9998, "Water", 0, "g"),
     Nutrient(1004, "Total lipid (fat)", NullAmount, "g"),
     Nutrient(1008, "Energy", MissingAmount, "kcal")}

Tails == UNION {[1..k -> TailRecords] : k \in 0..MaxTail}

\* filler blocks that leave other_nutrients empty, one short of its cap, at
\* its cap and one past it
FillerSizes == {0} \cup ((OtherNutrientsCap - 1)..(OtherNutrientsCap + 1))

ClassifyInputs ==
    {Filler(n) \o t : n \in FillerSizes, t \in Tails}
    \cup {t \o Filler(n) : n \in FillerSizes, t \in Tails}

ClassifiedFood == Food(1, "A desc", << >>)

InitClassify ==
    /\ process = "http"
    /\ api_key = TRUE
    /\ client = "open"
    /\ mcp_client = "None"
    /\ started = TRUE
    /\ pc = "classify"
    /\ req = Request("http", "get_food_nutrition", IdList(1), 0, TRUE)
    /\ attempt_number = 1
    /\ attempts = << >>
    /\ sleeps = << >>
    /\ net_calls = 1
    /\ upstream = NoScript
    /\ idx = 0
    /\ foods_data = << >>
    /\ fetches = << >>
    /\ response = NoResponse
    /\ food_nutrients \in ClassifyInputs
    /\ pos = 1
    /\ nutrition = EmptyNutrition
    /\ placed = {}
    /\ tasks = NoTasks
    /\ created = 0
    /\ posts = 0
    /\ answer = NoAnswer
    /\ content = NoContent
    /\ initialized = TRUE

\* one iteration of the loop over food_nutrients
ClassifyNutrient ==
    /\ pc = "classify"
    /\ pos <= Len(food_nutrients)
    /\ nutrition' = ClassifyStep(nutrition, food_nutrients[pos])
    /\ placed' = LET b == Placement(nutrition, food_nutrients[pos])
                 IN  IF b = "dropped" THEN placed ELSE placed \cup {<<pos, b>>}
    /\ pos' = pos + 1
    /\ UNCHANGED <<pc, req, attempt_number, attempts, sleeps, net_calls, upstream,
                   idx, foods_data, fetches, response, food_nutrients>>
    /\ UNCHANGED clientVars
    /\ UNCHANGED taskVars
    /\ UNCHANGED bridgeVars
    /\ UNCHANGED initialized

\* the loop is over: the handler returns the envelope
ClassifyReturn ==
    /\ pc = "classify"
    /\ pos > Len(food_nutrients)
    /\ response' = MCPResponse(TRUE,
                               Some(NutritionSummaryOf(ClassifiedFood, nutrition)),
                               None, "get_food_nutrition",
                               <<"Retrieved nutrition data for ",
                                 ClassifiedFood.description>>)
    /\ pc' = "done"
    /\ UNCHANGED <<req, attempt_number, attempts, sleeps, net_calls, upstream,
                   idx, foods_data, fetches>>
    /\ UNCHANGED classVars
    /\ UNCHANGED clientVars

NextClassify ==
    \/ ClassifyNutrient
    \/ ClassifyReturn

SpecClassify == InitClassify /\ [][NextClassify]_vars

(***************************************************************************)
(* The tool calls of the MCP server running concurrently on one event      *)
(* loop: a call runs without interruption from one await that suspends to  *)
(* the next.  get_client tests the global, assigns it and awaits           *)
(* client.initialize(); the tool then awaits the upstream request.         *)
(***************************************************************************)
McpTools == {"search_foods", "get_food_details", "get_multiple_foods",
             "analyze_nutrition"}

\* variant of InitializeSuspends: initialize() awaits something that yields
\* to the event loop
InitializeSuspendsAlways == TRUE

\* USDAClient.initialize has no await in its body: awaiting it never yields
\* to the event loop
InitializeSuspends == FALSE

InitGetClient ==
    /\ process = "mcp"
    /\ api_key \in BOOLEAN
    /\ client = "None"
    /\ mcp_client = "None"
    /\ started = FALSE
    /\ pc = "tasks"
    /\ req = NoRequest
    /\ attempt_number = 0
    /\ attempts = << >>
    /\ sleeps = << >>
    /\ net_calls = 0
    /\ upstream = NoScript
    /\ idx = 0
    /\ foods_data = << >>
    /\ fetches = << >>
    /\ response = NoResponse
    /\ food_nutrients = << >>
    /\ pos = 0
    /\ nutrition = EmptyNutrition
    /\ placed = {}
    /\ tasks = NoTasks
    /\ created = 0
    /\ posts = 0
    /\ answer = NoAnswer
    /\ content = NoContent
    /\ initialized = FALSE

\* the tool call once get_client returned handle: is_configured() is tested
\* and the call either awaits its upstream request or returns the error
AfterGetClient(tool, handle, got) ==
    [pc |-> IF is_configured(handle) THEN "request" ELSE "done",
     tool |-> tool, got |-> got]

\* a tool call starts and runs to its first await that suspends
TaskCalls(t, tool) ==
    /\ pc = "tasks"
    /\ tasks[t].pc = "idle"
    /\ IF mcp_client = "None"
       THEN /\ created' = created + 1
            /\ IF InitializeSuspends
               THEN /\ mcp_client' = "created"
                    /\ tasks' = [tasks EXCEPT ![t] = [pc |-> "initialize",
                                                     tool |-> tool,
                                                     got |-> "none"]]
               ELSE /\ mcp_client' = initialize("nohandle")
                    /\ tasks' = [tasks EXCEPT ![t] =
                                    AfterGetClient(tool, initialize("nohandle"),
                                                   "ready")]
       ELSE /\ created' = created
            /\ mcp_client' = mcp_client
            /\ tasks' = [tasks EXCEPT ![t] =
                            AfterGetClient(tool, mcp_client,
                                           IF mcp_client = "created"
                                           THEN "uninitialized" ELSE "ready")]
    /\ UNCHANGED <<process, api_key, client, started, pc, req, attempt_number,
                   attempts, sleeps, net_calls, upstream, idx, foods_data, fetches,
                   response, food_nutrients, pos, nutrition, placed>>
    /\ initialized' = (initialized \/ mcp_client' \in {"nohandle", "open"})
    /\ UNCHANGED bridgeVars

\* the await a tool call is suspended in completes and the call runs on
TaskResumes(t) ==
    /\ pc = "tasks"
    /\ tasks[t].pc \in {"initialize", "request"}
    /\ IF tasks[t].pc = "initialize"
       THEN /\ mcp_client' = initialize("nohandle")
            /\ tasks' = [tasks EXCEPT ![t] =
                            AfterGetClient(tasks[t].tool, initialize("nohandle"),
                                           "ready")]
       ELSE /\ mcp_client' = mcp_client
            /\ tasks' = [tasks EXCEPT ![t].pc = "done"]
    /\ UNCHANGED <<process, api_key, client, started, pc, req, attempt_number,
                   attempts, sleeps, net_calls, upstream, idx, foods_data, fetches,
                   response, food_nutrients, pos, nutrition, placed, created>>
    /\ initialized' = (initialized \/ mcp_client' \in {"nohandle", "open"})
    /\ UNCHANGED bridgeVars

\* the result of a tool call is delivered
TaskReturns(t) ==
    /\ pc = "tasks"
    /\ tasks[t].pc = "done"
    /\ tasks' = [tasks EXCEPT ![t] = NoTask]
    /\ UNCHANGED <<process, api_key, client, mcp_client, started, pc, req,
                   attempt_number, attempts, sleeps, net_calls, upstream, idx,
                   foods_data, fetches, response, food_nutrients, pos, nutrition,
                   placed, created>>
    /\ UNCHANGED bridgeVars
    /\ UNCHANGED initialized

NextGetClient ==
    \/ \E t \in 1..MaxTasks, tool \in McpTools : TaskCalls(t, tool)
    \/ \E t \in 1..MaxTasks : TaskResumes(t)
    \/ \E t \in 1..MaxTasks : TaskReturns(t)

SpecGetClient == InitGetClient /\ [][NextGetClient]_vars

(***************************************************************************)
(* mcp_bridge: handle_call_tool posts the call to the HTTP server and      *)
(* turns whatever comes back into one text item.  Texts leave out the      *)
(* emoji and the markdown marks of the source.                             *)
(***************************************************************************)
\* the names a caller of the bridge can pass: the advertised ones and the
\* ones of the server's other routes
BridgeTools == list_tools \cup handle_list_tools

\* name and arguments of one call; validated: the arguments satisfy the
\* pydantic model of the route (arguments left out are sent as {})
BridgeRequest(name, valid) ==
    Request("bridge", name, IF valid THEN IdList(2) ELSE << >>,
            IF valid THEN 25 ELSE 0, valid)

\* what the handlers of the HTTP server answer to POST /tools/{name}
ServerResponses(r) ==
    LET h == Request("http", r.tool, r.fdc_ids, r.page_size, TRUE)
        errors == {RetryError(USDAApiError(500)), RetryError(NotConfiguredError)}
    IN  IF <<"POST", r.tool>> \notin tool_routes THEN {RouterAnswer("POST", r.tool)}
        ELSE IF ~r.validated THEN {ValidationError(r.tool)}
        ELSE IF r.tool = "compare_foods"
        THEN {CompareResponse(foods) : foods \in {<< >>, <<FoodA>>, <<FoodA, FoodB>>}}
        ELSE IF r.tool = "search_foods"
        THEN {OnReturn(h, p) : p \in SearchPayloads} \cup {OnRaise(h, e) : e \in errors}
        ELSE {OnReturn(h, f) : f \in FoodPayloads} \cup {OnRaise(h, e) : e \in errors}

\* a 5xx answer that is no envelope (an unhandled error, a proxy)
ServerError(tool) ==
    Resp("http_error", FALSE, None, <<"Internal Server Error">>, tool, None, 500, None)

\* how client.post and response.json() can end: no answer within the 30 s,
\* no connection, an answer whose body is not JSON, or an answer of the server
Answer(kind, resp) == [kind |-> kind, response |-> resp]
Answers(r) ==
    {Answer("timeout", NoResponse), Answer("connect_error", NoResponse),
     Answer("not_json", NoResponse), Answer("response", ServerError(r.tool))}
        \cup {Answer("response", x) : x \in ServerResponses(r)}

\* the exceptions of httpx and of the body of the try block
ReadTimeout == Exc("ReadTimeout", <<"">>)
ConnectError == Exc("ConnectError", <<"All connection attempts failed">>)
HTTPStatusError(status) ==
    Exc("HTTPStatusError", <<"Error '", status, "' for url">>)
JSONDecodeError == Exc("JSONDecodeError", <<"Expecting value: line 1 column 1 (char 0)">>)
AttributeError == Exc("AttributeError", <<"'NoneType' object has no attribute 'get'">>)

\* httpx: TimeoutException is a TransportError, and it and HTTPStatusError
\* are HTTPError
TimeoutExceptions == {"ConnectTimeout", "ReadTimeout", "WriteTimeout", "PoolTimeout"}
HTTPErrors == TimeoutExceptions \cup {"ConnectError", "ReadError", "HTTPStatusError"}

\* format_response, tool_name == "search_foods"
RECURSIVE FoodLines(_, _)
FoodLines(foods, i) ==
    IF i > Len(foods) THEN << >>
    ELSE <<i, ". ", foods[i].description, " (ID: ", foods[i].fdc_id, ")">>
         \o (IF foods[i].brand_owner # "" THEN <<"Brand: ", foods[i].brand_owner>>
             ELSE << >>)
         \o <<"Type: ", foods[i].data_type>>
         \o FoodLines(foods, i + 1)

FormatSearchFoods(data) ==
    IF Len(data.foods) = 0
    THEN <<"No foods found for your search. Try different keywords!">>
    ELSE <<"Found ", Len(data.foods), " foods:">>
         \o FoodLines(data.foods, 1)
         \o <<"Use get_food_nutrition with an ID to see detailed nutrition info!">>

\* format_response, tool_name == "get_food_nutrition": one section per
\* bucket that is not empty, one line per nutrient
RECURSIVE NutrientLines(_, _)
NutrientLines(bucket, i) ==
    IF i > Len(bucket) THEN << >>
    ELSE <<bucket[i][1], ": ", bucket[i][2].amount, bucket[i][2].unit>>
         \o NutrientLines(bucket, i + 1)

NutrientSection(title, bucket) ==
    IF Len(bucket) = 0 THEN << >> ELSE <<title>> \o NutrientLines(bucket, 1)

FormatFoodNutrition(data) ==
    <<data.food_info.description, "ID: ", data.food_info.fdc_id>>
        \o NutrientSection("Macronutrients (per 100g):", data.nutrition.macronutrients)
        \o NutrientSection("Vitamins:", data.nutrition.vitamins)
        \o NutrientSection("Minerals:", data.nutrition.minerals)

\* format_response, tool_name == "compare_foods"
RECURSIVE ComparedFoodLines(_, _)
ComparedFoodLines(foods, i) ==
    IF i > Len(foods) THEN << >>
    ELSE <<i, ". ", foods[i].description>> \o ComparedFoodLines(foods, i + 1)

RECURSIVE ComparedRowLines(_, _)
ComparedRowLines(row, i) ==
    IF i > Len(row) THEN << >>
    ELSE <<row[i].food, ": ", row[i].amount, row[i].unit>>
         \o ComparedRowLines(row, i + 1)

RECURSIVE ComparisonLines(_, _)
ComparisonLines(comparison, i) ==
    IF i > Len(comparison) THEN << >>
    ELSE <<comparison[i][1], ":">> \o ComparedRowLines(comparison[i][2], 1)
         \o ComparisonLines(comparison, i + 1)

FormatCompareFoods(data) ==
    <<"Food Comparison (per 100g):", "Foods being compared:">>
        \o ComparedFoodLines(data.foods, 1)
        \o ComparisonLines(data.nutrient_comparison, 1)

\* format_response, tool_name == "nutrition_question_helper"
FormatQuestionHelper(data) ==
    <<"Your question: ", data.question>>
        \o (IF Len(data.suggested_searches) = 0 THEN << >>
            ELSE <<"Suggested foods to search for:">> \o data.suggested_searches)
        \o (IF Len(data.tips) = 0 THEN << >> ELSE <<"Tips:">> \o data.tips)

\* format_response: the text of the payload of a success envelope; any
\* other tool's payload is dumped as JSON
format_response(tool_name, data) ==
    CASE tool_name = "search_foods" -> FormatSearchFoods(data)
      [] tool_name = "get_food_nutrition" -> FormatFoodNutrition(data)
      [] tool_name = "compare_foods" -> FormatCompareFoods(data)
      [] tool_name = "nutrition_question_helper" -> FormatQuestionHelper(data)
      [] OTHER -> <<"json.dumps", data>>

\* the body of the try block: the text it returns, or the exception it raises
CallToolBody(name, a) ==
    CASE a.kind = "timeout" -> [ok |-> FALSE, text |-> << >>, exc |-> ReadTimeout]
      [] a.kind = "connect_error" -> [ok |-> FALSE, text |-> << >>, exc |-> ConnectError]
      [] a.kind = "not_json" -> [ok |-> FALSE, text |-> << >>, exc |-> JSONDecodeError]
      [] a.kind = "response" ->
            IF a.response.status \notin 200..299
            THEN [ok |-> FALSE, text |-> << >>,
                  exc |-> HTTPStatusError(a.response.status)]
            ELSE IF a.response.success
            THEN IF a.response.data = None
                 THEN [ok |-> FALSE, text |-> << >>, exc |-> AttributeError]
                 ELSE [ok |-> TRUE, text |-> format_response(name, a.response.data[1]),
                       exc |-> Exc("", << >>)]
            ELSE [ok |-> TRUE,
                  text |-> <<"Error: ">> \o (IF a.response.error = None
                                             THEN <<"None">> ELSE a.response.error),
                  exc |-> Exc("", << >>)]

\* variant of ExceptClause: the except clauses in the other order, the
\* HTTPError one first
ExceptClauseHTTPFirst(e) ==
    IF e.type \in HTTPErrors THEN "HTTPError"
    ELSE IF e.type \in TimeoutExceptions THEN "TimeoutException"
    ELSE "Exception"

\* the except clause that handles e: the first one, in the order of the
\* source, whose class e is an instance of
ExceptClause(e) ==
    IF e.type \in TimeoutExceptions THEN "TimeoutException"
    ELSE IF e.type \in HTTPErrors THEN "HTTPError"
    ELSE "Exception"

\* [types.TextContent(type="text", text=...)]
TextContent(text) == [type |-> "text", text |-> text]
CallToolResult(text) == [raised |-> FALSE, items |-> <<TextContent(text)>>]

handle_call_tool(name, a) ==
    LET body == CallToolBody(name, a)
    IN  IF body.ok THEN CallToolResult(body.text)
        ELSE CASE ExceptClause(body.exc) = "TimeoutException"
                    -> CallToolResult(<<"Request timed out. Please try again.">>)
               [] ExceptClause(body.exc) = "HTTPError"
                    -> CallToolResult(<<"HTTP Error: ">> \o Str(body.exc))
               [] ExceptClause(body.exc) = "Exception"
                    -> CallToolResult(<<"Error calling ", name, ": ">>
                                          \o Str(body.exc))

InitBridge ==
    /\ process = "bridge"
    /\ api_key \in BOOLEAN
    /\ client = "None"
    /\ mcp_client = "None"
    /\ started = FALSE
    /\ pc = "idle"
    /\ req = NoRequest
    /\ attempt_number = 0
    /\ attempts = << >>
    /\ sleeps = << >>
    /\ net_calls = 0
    /\ upstream = NoScript
    /\ idx = 0
    /\ foods_data = << >>
    /\ fetches = << >>
    /\ response = NoResponse
    /\ food_nutrients = << >>
    /\ pos = 0
    /\ nutrition = EmptyNutrition
    /\ placed = {}
    /\ tasks = NoTasks
    /\ created = 0
    /\ posts = 0
    /\ answer = NoAnswer
    /\ content = NoContent
    /\ initialized = FALSE

bridgeFrame == <<process, api_key, client, mcp_client, started, attempt_number,
                 attempts, sleeps, net_calls, upstream, idx, foods_data, fetches,
                 response, food_nutrients, pos, nutrition, placed, tasks, created,
                 initialized>>

\* handle_call_tool is called and awaits client.post
BridgeCallTool(name, valid) ==
    /\ pc = "idle"
    /\ req' = BridgeRequest(name, valid)
    /\ posts' = 1
    /\ pc' = "posted"
    /\ UNCHANGED <<answer, content>>
    /\ UNCHANGED bridgeFrame

\* the POST ends: the server answers, or the transport fails
BridgePostEnds ==
    /\ pc = "posted"
    /\ \E a \in Answers(req) : answer' = a
    /\ pc' = "answered"
    /\ UNCHANGED <<req, posts, content>>
    /\ UNCHANGED bridgeFrame

\* the rest of handle_call_tool runs to its return
BridgeReturns ==
    /\ pc = "answered"
    /\ content' = handle_call_tool(req.tool, answer)
    /\ pc' = "done"
    /\ UNCHANGED <<req, posts, answer>>
    /\ UNCHANGED bridgeFrame

\* the result reaches the MCP client and the call is over
BridgeDelivers ==
    /\ pc = "done"
    /\ pc' = "idle"
    /\ req' = NoRequest
    /\ posts' = 0
    /\ answer' = NoAnswer
    /\ content' = NoContent
    /\ UNCHANGED bridgeFrame

NextBridge ==
    \/ \E name \in BridgeTools, valid \in BOOLEAN : BridgeCallTool(name, valid)
    \/ BridgePostEnds
    \/ BridgeReturns
    \/ BridgeDelivers

SpecBridge == InitBridge /\ [][NextBridge]_vars

(***************************************************************************)
(* Properties.                                                             *)
(***************************************************************************)
Range(f) == {f[i] : i \in DOMAIN f}

\* the client of the request in flight is configured and its handle is open
Reachable == is_configured(Handle(req)) /\ Handle(req) = "open"

\* the request is one that runs _make_request once, and that call is over
SingleOperationDone ==
    /\ pc = "done"
    /\ req.tool \notin {"compare_foods", "demo_vegetarian_iron"}
    /\ Len(fetches) = 1

\* C1: retry transparency.  When the upstream API fails fewer than 3 calls
\* of one operation and then answers, the operation ends after exactly that
\* many failed attempts plus one, its caller receives the payload of the
\* successful attempt and no error: a direct caller of the client gets the
\* payload returned, a tool caller gets a success result without error, and
\* compare_foods appends the payload to the foods it fetched.
RetryTransparency ==
    /\ (SingleOperationDone /\ Reachable /\ Len(upstream.failures) < 3)
          => /\ Len(attempts) = Len(upstream.failures) + 1
             /\ attempts[Len(attempts)].ok
             /\ attempts[Len(attempts)].payload = Some(upstream.payload)
             /\ fetches[1].ok
             /\ fetches[1].payload = Some(upstream.payload)
             /\ response.success
             /\ response.error = None
             /\ response.exc = None
             /\ req.via = "client" => /\ response.kind = "returned"
                                      /\ response.data = Some(upstream.payload)
    /\ (pc = "done" /\ req.tool = "compare_foods" /\ fetches # << >>
        /\ Reachable /\ Len(upstream.failures) < 3)
          => /\ fetches[Len(fetches)].ok
             /\ foods_data # << >>
             /\ foods_data[Len(foods_data)] = upstream.payload
             /\ response.success

\* C1 witness: a direct client call whose first two attempts failed (one on
\* an HTTP status, one on a timeout) and whose third returned the payload
RetryTransparencyWitness ==
    /\ pc = "done" /\ req.via = "client" /\ req.tool = "get_food_details"
    /\ Len(attempts) = 3
    /\ attempts[1].status = 500 /\ ~attempts[1].ok
    /\ attempts[2].exc.type = "ReadTimeout" /\ ~attempts[2].ok
    /\ attempts[3].ok
    /\ response.kind = "returned"
    /\ response.data = Some(FoodA)

\* C2: retry exhaustion.  No operation ever makes a 4th attempt, and when
\* the upstream API fails every call of a search_foods or get_food_nutrition
\* request, exactly 3 attempts are made and the caller receives an envelope
\* with success=false, an error and no data.
RetryExhaustion ==
    /\ Len(attempts) <= 3
    /\ attempt_number <= 3
    /\ (SingleOperationDone /\ req.via = "http" /\ Reachable
        /\ Len(upstream.failures) >= 3)
          => /\ Len(attempts) = 3
             /\ \A i \in 1..3 : attempts[i].sent /\ ~attempts[i].ok
             /\ net_calls = 3
             /\ response.kind = "envelope"
             /\ response.success = FALSE
             /\ response.error # None
             /\ response.data = None

\* C2 witness: get_food_nutrition answered with a failure envelope after
\* three failed network calls
RetryExhaustionWitness ==
    /\ pc = "done" /\ req.via = "http" /\ req.tool = "get_food_nutrition"
    /\ Len(attempts) = 3 /\ net_calls = 3
    /\ \A i \in 1..3 : ~attempts[i].ok
    /\ response.kind = "envelope" /\ response.success = FALSE

\* C3: with no API key, every upstream operation fails fast with a
\* not-configured error: at most one attempt, no network call, no backoff
\* wait, and the error received is the not-configured one.
NotConfiguredFailsFast ==
    (pc = "done" /\ ~api_key /\ req.tool # "" /\ response.kind # "validation_error"
     /\ ~(req.tool = "get_multiple_foods" /\ Len(req.fdc_ids) > 20)
     /\ ~(req.tool = "compare_foods" /\ Len(req.fdc_ids) \notin 1..5))
        => /\ Len(attempts) <= 1
           /\ sleeps = << >>
           /\ net_calls = 0
           /\ response.success = FALSE
           /\ \/ response.error = NotConfiguredText
              \/ \E i \in 1..Len(response.error) :
                    response.error[i] = "USDA client not configured - missing API key"

\* C4: when the retry budget is exhausted on non-2xx answers, the error the
\* caller receives carries the HTTP status code of the upstream answer.
ExhaustionCarriesStatus ==
    (SingleOperationDone /\ req.via \in {"client", "http"} /\ Reachable
     /\ Len(attempts) = 3
     /\ \A i \in 1..3 : attempts[i].status \in StatusCodes)
        => /\ response.success = FALSE
           /\ StatusText(attempts[3].status) \in Range(response.error)

\* C5: a comparison request with more than 5 ids never starts a fetch: it
\* ends at once with an invalid-input outcome (the 422 of the route's
\* validation, or the failure envelope of the handler's own guard) and no
\* upstream call.
CompareTooManyIds ==
    (req.tool = "compare_foods" /\ Len(req.fdc_ids) > 5)
        => /\ pc = "done"
           /\ net_calls = 0
           /\ attempts = << >>
           /\ fetches = << >>
           /\ response.success = FALSE
           /\ response.data = None
           /\ \/ response.kind = "validation_error" /\ response.status = 422
              \/ /\ response.kind = "envelope"
                 /\ response.error = <<"Failed to compare foods: ", "400", ": ",
                                       "Maximum 5 foods can be compared">>

\* C5 witness: the handler's guard answered a 6-id request that skipped the
\* route's validation
CompareTooManyIdsWitness ==
    /\ pc = "done" /\ req.tool = "compare_foods" /\ Len(req.fdc_ids) = 6
    /\ ~req.validated
    /\ response.kind = "envelope" /\ ~response.success
    /\ net_calls = 0

\* C6: a batch fetch with more than 20 ids never reaches _make_request: it
\* ends at once, the client raising its ValueError and the MCP tool
\* returning its error, with no attempt, no network call and no backoff.
BatchTooManyIds ==
    (req.tool = "get_multiple_foods" /\ Len(req.fdc_ids) > 20)
        => /\ pc = "done"
           /\ net_calls = 0
           /\ attempts = << >>
           /\ sleeps = << >>
           /\ fetches = << >>
           /\ response.success = FALSE
           /\ response.error = <<"Maximum 20 foods can be requested at once">>
           /\ req.via = "client" => /\ response.kind = "raised"
                                    /\ response.exc[1].type = "ValueError"
           /\ req.via = "mcp" => response.kind = "dict"

\* C6 witness: the client raised on a 21-id batch
BatchTooManyIdsWitness ==
    /\ pc = "done" /\ req.via = "client" /\ req.tool = "get_multiple_foods"
    /\ Len(req.fdc_ids) = 21
    /\ response.kind = "raised"
    /\ net_calls = 0

\* compare_foods ran its fetch loop to the end
CompareDone ==
    pc = "done" /\ req.tool = "compare_foods" /\ fetches # << >>

IsOk(f) == f.ok
FetchedFoods == [i \in 1..Len(SelectSeq(fetches, IsOk)) |->
                    SelectSeq(fetches, IsOk)[i].payload[1]]

\* C7: per-food failure isolation.  When compare_foods has run its loop,
\* every id was fetched, in input order, whatever the fetches before it did;
\* and when at least one fetch succeeded the caller receives a success
\* envelope whose foods are exactly the fetched foods, in order, with
\* total_foods_compared equal to their number.
CompareIsolation ==
    CompareDone
        => /\ Len(fetches) = Len(req.fdc_ids)
           /\ \A i \in 1..Len(fetches) : fetches[i].fdc_id = req.fdc_ids[i]
           /\ foods_data = FetchedFoods
           /\ Len(FetchedFoods) >= 1
                 => /\ response.kind = "envelope"
                    /\ response.success
                    /\ response.error = None
                    /\ Len(response.data[1].foods) = Len(FetchedFoods)
                    /\ \A j \in 1..Len(FetchedFoods) :
                          /\ response.data[1].foods[j].fdc_id = FetchedFoods[j].fdcId
                          /\ response.data[1].foods[j].description
                                = FetchedFoods[j].description
                    /\ response.data[1].summary.total_foods_compared
                          = Len(FetchedFoods)

\* C7 witness: of three ids the first and the last fetch failed after their
\* retries and the one in the middle succeeded, giving a success envelope
\* that compares one food
CompareIsolationWitness ==
    /\ CompareDone
    /\ Len(req.fdc_ids) = 3
    /\ ~fetches[1].ok /\ fetches[2].ok /\ ~fetches[3].ok
    /\ Reachable
    /\ response.success
    /\ response.data[1].summary.total_foods_compared = 1

\* C8: when every food fetch of a comparison fails, the caller receives a
\* failure envelope (success=false, an error, no data); a success envelope
\* of compare_foods never carries an empty comparison.
CompareAllFailed ==
    /\ (CompareDone /\ \A i \in 1..Len(fetches) : ~fetches[i].ok)
          => /\ response.kind = "envelope"
             /\ response.success = FALSE
             /\ response.error = <<"No valid food data found for comparison">>
             /\ response.data = None
    /\ (pc = "done" /\ req.tool = "compare_foods" /\ response.success)
          => /\ response.data # None
             /\ Len(response.data[1].foods) >= 1

\* C8 witness: both fetches of a two-id comparison failed on the network
CompareAllFailedWitness ==
    /\ CompareDone
    /\ Len(req.fdc_ids) = 2
    /\ Reachable
    /\ ~fetches[1].ok /\ ~fetches[2].ok
    /\ response.success = FALSE

KeyedBuckets == {"macronutrients", "vitamins", "minerals"}
Buckets == KeyedBuckets \cup {"other_nutrients"}

TableOf(b) == CASE b = "macronutrients" -> macro_nutrients
                [] b = "vitamins" -> vitamin_nutrients
                [] b = "minerals" -> mineral_nutrients

\* C9: at every point of the classification, each of the buckets
\* macronutrients, vitamins and minerals holds only records whose id is in
\* that bucket's table (every entry is the data of a record stored there
\* under its name, and every record stored there has an id of the table),
\* and no id is stored in more than one bucket.
BucketsFollowTables ==
    /\ \A b \in KeyedBuckets :
          /\ \A e \in placed : e[2] = b => food_nutrients[e[1]].id \in TableOf(b)
          /\ \A i \in 1..Len(nutrition[b]) :
                \E e \in placed :
                   /\ e[2] = b
                   /\ food_nutrients[e[1]].id \in TableOf(b)
                   /\ food_nutrients[e[1]].name = nutrition[b][i][1]
                   /\ NutrientData(food_nutrients[e[1]]) = nutrition[b][i][2]
    /\ \A e \in placed, f \in placed :
          food_nutrients[e[1]].id = food_nutrients[f[1]].id => e[2] = f[2]

\* C9 witness: the pass is over and filled all three keyed buckets, two of
\* them under the same nutrient name
BucketsFollowTablesWitness ==
    /\ pc = "done"
    /\ DictHas(nutrition.macronutrients, "Protein")
    /\ DictHas(nutrition.minerals, "Protein")
    /\ Len(nutrition.vitamins) = 1

\* record j of the list has an amount that is neither missing nor null
NonNull(j) == food_nutrients[j].amount >= 0

Unmatched(n) ==
    n.id \notin (macro_nutrients \cup vitamin_nutrients \cup mineral_nutrients)

\* the unmatched records with an amount that come before position j
UnmatchedBefore(j) ==
    {k \in 1..(j - 1) : NonNull(k) /\ Unmatched(food_nutrients[k])}

\* record j arrives unmatched when other_nutrients already holds 10 entries
ArrivesAfterCap(j) ==
    Unmatched(food_nutrients[j]) /\ Cardinality(UnmatchedBefore(j)) >= 10

\* record j is in bucket b of the result
AppearsIn(j, b) ==
    /\ <<j, b>> \in placed
    /\ IF b = "other_nutrients"
       THEN NutrientData(food_nutrients[j]) \in Range(nutrition.other_nutrients)
       ELSE /\ DictHas(nutrition[b], food_nutrients[j].name)
            /\ DictGet(nutrition[b], food_nutrients[j].name)
                  = NutrientData(food_nutrients[j])

InExactlyOneBucket(j) == Cardinality({b \in Buckets : AppearsIn(j, b)}) = 1

\* a later record with an amount has the name of record j and an id of the
\* same table: it takes the entry of record j
OverwrittenLater(j) ==
    \E k \in (j + 1)..Len(food_nutrients) :
       /\ NonNull(k)
       /\ food_nutrients[k].name = food_nutrients[j].name
       /\ \E b \in KeyedBuckets : /\ food_nutrients[j].id \in TableOf(b)
                                  /\ food_nutrients[k].id \in TableOf(b)

\* C10 as stated: in the classified result every record with a non-null
\* amount is in exactly one bucket, except the unmatched records that arrive
\* after other_nutrients holds 10 entries.
EveryRecordInOneBucket ==
    pc = "done"
        => \A j \in 1..Len(food_nutrients) :
              (NonNull(j) /\ ~ArrivesAfterCap(j))
                 => InExactlyOneBucket(j)

\* C10 amended: in the classified result every record with a non-null amount
\* is in exactly one bucket, except the unmatched records that arrive after
\* other_nutrients holds 10 entries and the records overwritten by a later
\* record of the same name in the same bucket; a record with a null amount
\* is in no bucket.
EveryKeptRecordInOneBucket ==
    pc = "done"
        => \A j \in 1..Len(food_nutrients) :
              /\ (NonNull(j) /\ ~ArrivesAfterCap(j)
                  /\ ~OverwrittenLater(j))
                    => InExactlyOneBucket(j)
              /\ ~NonNull(j)
                    => \A b \in Buckets : ~AppearsIn(j, b)

\* C10 witness: the result holds 10 other nutrients, an 11th unmatched
\* record was left out, a record with amount 0 was kept and a Protein record
\* was overwritten by a later one
EveryKeptRecordInOneBucketWitness ==
    /\ pc = "done"
    /\ Len(nutrition.other_nutrients) = 10
    /\ \E j \in 1..Len(food_nutrients) :
          /\ NonNull(j) /\ ArrivesAfterCap(j)
          /\ \A b \in Buckets : ~AppearsIn(j, b)
    /\ \E j \in 1..Len(food_nutrients) :
          food_nutrients[j].amount = 0 /\ InExactlyOneBucket(j)
    /\ \E j \in 1..Len(food_nutrients) :
          /\ OverwrittenLater(j)
          /\ food_nutrients[j].id = 1003
          /\ \A b \in Buckets : ~AppearsIn(j, b)

\* the k-th smallest member of a set of positions
NthOf(S, k) == CHOOSE j \in S : Cardinality({i \in S : i < j}) = k - 1

\* the first 10 unmatched records with an amount before position j, in the
\* order of the list
FirstUnmatchedBefore(j) ==
    LET S == UnmatchedBefore(j)
        n == IF Cardinality(S) < 10 THEN Cardinality(S) ELSE 10
    IN  [k \in 1..n |->
            [name   |-> food_nutrients[NthOf(S, k)].name,
             amount |-> food_nutrients[NthOf(S, k)].amount,
             unit   |-> food_nutrients[NthOf(S, k)].unitName]]

\* C11: at every point of the classification pass other_nutrients holds at
\* most 10 entries, and they are the first 10 unmatched records (with an
\* amount) met so far, in input order.
OtherNutrientsCapped ==
    pc \in {"classify", "done"}
        => /\ Len(nutrition.other_nutrients) <= 10
           /\ nutrition.other_nutrients = FirstUnmatchedBefore(pos)

\* C11 witness: the pass is over a list with more than 10 unmatched records
\* that starts with one of them; the result holds 10, the first one first
OtherNutrientsCappedWitness ==
    /\ pc = "done"
    /\ Cardinality(UnmatchedBefore(Len(food_nutrients) + 1)) > 10
    /\ food_nutrients[1].id = 9999
    /\ Len(nutrition.other_nutrients) = 10
    /\ nutrition.other_nutrients[1].name = "Mystery"
    /\ nutrition.other_nutrients[10].name = "Filler"

\* the 8 nutrients of the comparison: id and display name
AllowListed == {<<1008, "Energy (kcal)">>, <<1003, "Protein">>,
                <<1004, "Total Fat">>, <<1005, "Carbohydrate">>,
                <<1079, "Fiber">>, <<1087, "Calcium">>, <<1089, "Iron">>,
                <<1162, "Vitamin C">>}

AllowListedNames == {p[2] : p \in AllowListed}

\* compare_foods answered with a comparison
CompareSucceeded == CompareDone /\ response.success

\* the comparison table of the answer: a sequence of <<display name, row>>
ComparisonTable == response.data[1].nutrient_comparison

\* C12: in every comparison returned by compare_foods the rows of
\* nutrient_comparison are keyed only by the 8 allow-listed display names,
\* each name keys at most one row, and every entry of every row names a food
\* that was fetched successfully for this request.
ComparisonRowsAllowListed ==
    CompareSucceeded
        => /\ \A i \in 1..Len(ComparisonTable) :
                /\ ComparisonTable[i][1] \in AllowListedNames
                /\ \A j \in 1..Len(ComparisonTable) :
                      ComparisonTable[i][1] = ComparisonTable[j][1] => i = j
                /\ \A k \in 1..Len(ComparisonTable[i][2]) :
                      \E f \in 1..Len(fetches) :
                         /\ fetches[f].ok
                         /\ fetches[f].payload[1].description
                               = ComparisonTable[i][2][k].food
           /\ Len(ComparisonTable) <= 8

\* C12 witness: of two ids the first fetch failed and the second returned
\* food B, which also has nutrients outside the allow-list; the table has
\* the Protein row only and no entry names food A
ComparisonRowsAllowListedWitness ==
    /\ CompareSucceeded
    /\ Len(req.fdc_ids) = 2
    /\ ~fetches[1].ok
    /\ fetches[2].ok /\ fetches[2].payload[1].description = "B desc"
    /\ Len(ComparisonTable) = 1
    /\ ComparisonTable[1][1] = "Protein"
    /\ \A k \in 1..Len(ComparisonTable[1][2]) :
          ComparisonTable[1][2][k].food = "B desc"

\* the row of the comparison table under a display name, empty when the
\* table has no such row
RowOf(name) ==
    IF \E i \in 1..Len(ComparisonTable) : ComparisonTable[i][1] = name
    THEN ComparisonTable[CHOOSE i \in 1..Len(ComparisonTable) :
                            ComparisonTable[i][1] = name][2]
    ELSE << >>

\* the records with nutrient id nid in the fetched foods described as d:
\* pairs of the fetch and the position of the record in its food
Occurrences(d, nid) ==
    UNION {{<<f, k>> : k \in {k \in 1..Len(fetches[f].payload[1].foodNutrients) :
                                fetches[f].payload[1].foodNutrients[k].id = nid}} :
           f \in {f \in 1..Len(fetches) :
                     /\ fetches[f].ok
                     /\ fetches[f].payload[1].description = d}}

FoodDescriptions == {"A desc", "B desc"}

\* C13: in every comparison returned by compare_foods, a food has an entry
\* in the row of an allow-listed nutrient if and only if it was fetched
\* successfully and its nutrient list holds a record with that id, one entry
\* per such record; no row exists without entries.
FoodInRowIffFetchedWithNutrient ==
    CompareSucceeded
        => /\ \A d \in FoodDescriptions, p \in AllowListed :
                /\ (\E k \in 1..Len(RowOf(p[2])) : RowOf(p[2])[k].food = d)
                      <=> Occurrences(d, p[1]) # {}
                /\ Cardinality({k \in 1..Len(RowOf(p[2])) :
                                   RowOf(p[2])[k].food = d})
                      = Cardinality(Occurrences(d, p[1]))
           /\ \A i \in 1..Len(ComparisonTable) : ComparisonTable[i][2] # << >>

\* C13 witness: foods A and B were both fetched and only A has Iron (1089);
\* the Iron row has one entry, for A, and the Protein row has entries of
\* both foods
FoodInRowIffFetchedWithNutrientWitness ==
    /\ CompareSucceeded
    /\ Len(fetches) = 2
    /\ fetches[1].ok /\ fetches[1].payload[1].description = "A desc"
    /\ fetches[2].ok /\ fetches[2].payload[1].description = "B desc"
    /\ RowOf("Iron") = <<[food |-> "A desc", amount |-> 21, unit |-> "mg"]>>
    /\ \E k \in 1..Len(RowOf("Protein")) : RowOf("Protein")[k].food = "B desc"
    /\ \E k \in 1..Len(RowOf("Protein")) : RowOf("Protein")[k].food = "A desc"

\* a request to a tool operation (the handler of an HTTP endpoint, or an MCP
\* tool) is over
ToolDone ==
    /\ pc = "done" /\ req.via \in {"http", "mcp"}
    /\ req.tool \in {"search_foods", "get_food_nutrition", "compare_foods",
                     "get_multiple_foods", "analyze_nutrition"}

\* the route's pydantic model does not accept the body of the request
RejectedByValidation ==
    /\ req.via = "http" /\ req.validated
    /\ \/ req.tool = "search_foods" /\ req.page_size \notin 1..200
       \/ req.tool = "compare_foods" /\ Len(req.fdc_ids) \notin 2..5

\* the tool request failed: it ended before any upstream operation, or every
\* upstream operation it ran exhausted its attempts
ToolFailed ==
    ToolDone /\ \A f \in 1..Len(fetches) : ~fetches[f].ok

AdvertisedToolsAnswer ==
    (/\ pc = "done" /\ req.via = "http"
     /\ req.tool \in list_tools \cup handle_list_tools
     /\ ~RejectedByValidation)
        => /\ response.kind = "envelope"
           /\ req.tool = "nutrition_question_helper" => response.success

\* the calls of search_foods that reached the upstream API
SearchCallsSent ==
    {i \in 1..Len(attempts) : req.tool = "search_foods" /\ attempts[i].sent}

\* C17: every search call sent upstream carries pageSize = min(page_size,
\* 200), page_size being the value passed to the client's search; the value
\* sent is never above 200.
PageSizeClamped ==
    \A i \in SearchCallsSent :
       /\ attempts[i].pageSize
             = (IF req.page_size <= 200 THEN req.page_size ELSE 200)
       /\ attempts[i].pageSize <= 200

\* C17 witness: a search with page_size 250 reached the upstream API, which
\* was sent pageSize 200
PageSizeClampedWitness ==
    /\ pc = "done"
    /\ req.tool = "search_foods"
    /\ req.page_size = 250
    /\ SearchCallsSent # {}
    /\ \A i \in SearchCallsSent : attempts[i].pageSize = 200

\* the reference pass: the first table, in the order macro, vitamin, mineral,
\* that holds the id of record k
FirstTable(k) ==
    CASE food_nutrients[k].id \in macro_nutrients -> "macronutrients"
      [] food_nutrients[k].id \in vitamin_nutrients
         /\ food_nutrients[k].id \notin macro_nutrients -> "vitamins"
      [] food_nutrients[k].id \in mineral_nutrients
         /\ food_nutrients[k].id \notin macro_nutrients \cup vitamin_nutrients
            -> "minerals"
      [] OTHER -> "other"

\* the records before position j that the reference pass stores in table b
StoredBefore(j, b) == {k \in 1..(j - 1) : NonNull(k) /\ FirstTable(k) = b}

\* the last of them stored under name n
LastStored(j, b, n) ==
    CHOOSE k \in StoredBefore(j, b) :
       /\ food_nutrients[k].name = n
       /\ \A l \in StoredBefore(j, b) : food_nutrients[l].name = n => l <= k

RecordData(k) == [name   |-> food_nutrients[k].name,
                  amount |-> food_nutrients[k].amount,
                  unit   |-> food_nutrients[k].unitName]

\* C18: at every point of the pass, and so at its end, the classification
\* equals the reference single pass over the records read so far: records
\* with a null amount are dropped; each keyed bucket maps exactly the names
\* of the records whose first matching table (macro, vitamin, mineral) is
\* its own, each name to the last such record; other holds the unmatched
\* records in order, up to 10.
ClassificationIsReferencePass ==
    pc \in {"classify", "done"}
        => /\ \A b \in KeyedBuckets :
                /\ {nutrition[b][i][1] : i \in 1..Len(nutrition[b])}
                      = {food_nutrients[k].name : k \in StoredBefore(pos, b)}
                /\ \A i \in 1..Len(nutrition[b]) :
                      /\ nutrition[b][i][2]
                            = RecordData(LastStored(pos, b, nutrition[b][i][1]))
                      /\ \A j \in 1..Len(nutrition[b]) :
                            nutrition[b][i][1] = nutrition[b][j][1] => i = j
           /\ nutrition.other_nutrients
                 = [k \in 1..Len(nutrition.other_nutrients) |->
                       RecordData(NthOf(StoredBefore(pos, "other"), k))]
           /\ Len(nutrition.other_nutrients)
                 = (IF Cardinality(StoredBefore(pos, "other")) < 10
                    THEN Cardinality(StoredBefore(pos, "other")) ELSE 10)

\* C18 witness: the list [{1003 Protein 31 g}, {9999 Mystery 5 mg}] gives
\* macronutrients = {Protein} and other = [Mystery]
ClassificationIsReferencePassWitness ==
    /\ pc = "done"
    /\ food_nutrients = <<Nutrient(1003, "Protein", 31, "g"),
                          Nutrient(9999, "Mystery", 5, "mg")>>
    /\ nutrition.macronutrients
          = <<<<"Protein", [name |-> "Protein", amount |-> 31, unit |-> "g"]>>>>
    /\ nutrition.vitamins = << >>
    /\ nutrition.minerals = << >>
    /\ nutrition.other_nutrients
          = <<[name |-> "Mystery", amount |-> 5, unit |-> "mg"]>>

\* a compare_foods request is in its fetch loop or past it
CompareRunning ==
    req.tool = "compare_foods" /\ pc \in {"attempt", "backoff", "done"} /\ idx >= 1

\* the fetches that are over are those of the first ids of the request, one
\* each, in input order; the one in progress, if any, is the next id's; the
\* foods assembled are the payloads of the fetches that returned, in order
FetchesInInputOrder ==
    CompareRunning
        => /\ Len(fetches) = (IF pc = "done" THEN idx ELSE idx - 1)
           /\ idx <= Len(req.fdc_ids)
           /\ \A f \in 1..Len(fetches) : fetches[f].fdc_id = req.fdc_ids[f]
           /\ foods_data = FetchedFoods

\* a step that starts the fetch of the next id ends the fetch of the current
\* one: its attempt returned, or it was the third attempt and it failed
NextFetchAfterCurrent ==
    (req.tool = "compare_foods" /\ pc \in {"attempt", "backoff"} /\ idx' # idx
     /\ pc' # "idle")
        => /\ idx' = idx + 1
           /\ pc = "attempt"
           /\ Len(fetches') = Len(fetches) + 1
           /\ fetches'[idx].fdc_id = req.fdc_ids[idx]
           /\ \/ fetches'[idx].ok /\ MakeRequestOnce.ok
              \/ /\ ~fetches'[idx].ok
                 /\ ~MakeRequestOnce.ok
                 /\ Len(attempts) = 2

\* C19: within one compare_foods request the fetches are issued one at a
\* time in input order, the fetch of id i+1 starting only in the step that
\* ends the fetch of id i (it returned, or its third attempt failed), and the
\* fetched foods are assembled in that order.
SequentialFetches == [](FetchesInInputOrder) /\ [][NextFetchAfterCurrent]_vars

\* C19 witness: of three ids the first and the third were fetched, the
\* second failed its 3 attempts in between; the foods assembled are the
\* first then the third
SequentialFetchesWitness ==
    /\ CompareDone
    /\ Len(req.fdc_ids) = 3
    /\ fetches[1].ok /\ ~fetches[2].ok /\ fetches[3].ok
    /\ fetches[1].payload[1].description = "B desc"
    /\ fetches[3].payload[1].description = "A desc"
    /\ Len(foods_data) = 2
    /\ foods_data[1].description = "B desc"
    /\ foods_data[2].description = "A desc"

\* the records of the processed foods that have the allow-listed display
\* name: pairs of the position of the food in foods_data and of the record
\* in the food
RecordsNamed(name) ==
    UNION {{<<f, k>> : k \in {k \in 1..Len(foods_data[f].foodNutrients) :
                                <<foods_data[f].foodNutrients[k].id, name>>
                                    \in AllowListed}} :
           f \in 1..Len(foods_data)}

\* record a is processed before record b
ProcessedBefore(a, b) == a[1] < b[1] \/ (a[1] = b[1] /\ a[2] < b[2])

\* the k-th record of a set, in processing order
NthProcessed(S, k) ==
    CHOOSE a \in S : Cardinality({b \in S : ProcessedBefore(b, a)}) = k - 1

\* C20: in every comparison returned by compare_foods the rows of the table
\* are in the order in which their nutrients first occur in the processed
\* foods, and the entries of a row are those of the records with that
\* nutrient in processing order, each naming the food of its record.
RowsInFirstOccurrenceOrder ==
    CompareSucceeded
        => /\ \A i \in 1..Len(ComparisonTable) :
                LET S == RecordsNamed(ComparisonTable[i][1])
                    row == ComparisonTable[i][2]
                IN  /\ S # {}
                    /\ Len(row) = Cardinality(S)
                    /\ \A k \in 1..Len(row) :
                          LET a == NthProcessed(S, k)
                              n == foods_data[a[1]].foodNutrients[a[2]]
                          IN  /\ row[k].food = foods_data[a[1]].description
                              /\ row[k].unit = n.unitName
                              /\ row[k].amount
                                    = (IF n.amount = MissingAmount THEN 0
                                       ELSE n.amount)
           /\ \A i \in 1..Len(ComparisonTable), j \in 1..Len(ComparisonTable) :
                i < j => ProcessedBefore(
                            NthProcessed(RecordsNamed(ComparisonTable[i][1]), 1),
                            NthProcessed(RecordsNamed(ComparisonTable[j][1]), 1))

\* C20 witness: food B was processed before food A; the Protein row, first
\* met in B, comes before the Iron row, and its entries are B's two records
\* and then A's
RowsInFirstOccurrenceOrderWitness ==
    /\ CompareSucceeded
    /\ Len(foods_data) = 2
    /\ foods_data[1].description = "B desc"
    /\ foods_data[2].description = "A desc"
    /\ Len(ComparisonTable) = 2
    /\ ComparisonTable[1][1] = "Protein"
    /\ ComparisonTable[2][1] = "Iron"
    /\ ComparisonTable[1][2]
          = <<[food |-> "B desc", amount |-> 20, unit |-> "g"],
              [food |-> "B desc", amount |-> 0, unit |-> "g"],
              [food |-> "A desc", amount |-> 31, unit |-> "g"]>>

\* C21: the waits between the attempts of one upstream call escalate and are
\* capped: the wait before the third attempt is larger than the wait before
\* the second, and no wait is above the configured maximum of 10 seconds.
BackoffEscalates ==
    /\ \A i \in 1..Len(sleeps) : sleeps[i] <= 10
    /\ Len(sleeps) >= 2 => sleeps[2] > sleeps[1]

\* a step of the life cycle of the HTTP server's or a direct caller's client:
\* no request is in flight, initialize opened a handle or close closed it
LifecycleStep ==
    /\ pc = "idle" /\ pc' = "idle"
    /\ \/ client' = "open" /\ api_key
       \/ client' = "closed" /\ client = "open"

\* C22: the client's shared state is read-only after initialization.  No
\* step changes the API key; the handle of the HTTP server's client and of a
\* directly used client changes only in a step of initialize or close, never
\* in a step of a request operation; the handle of the MCP server's client
\* is set once, by the initialize of its lazy creation, and never again.
ClientStateReadOnly ==
    [][/\ api_key' = api_key
       /\ client' # client => LifecycleStep
       /\ mcp_client' # mcp_client => (mcp_client = "None" /\ pc = "idle")]_vars

\* C22 witness: a compare_foods request sent 3 or more upstream calls and is
\* over; the handle is open as before
ClientStateReadOnlyWitness ==
    /\ pc = "done"
    /\ req.via = "http" /\ req.tool = "compare_foods"
    /\ net_calls >= 3
    /\ api_key /\ client = "open"

\* an analyze_nutrition call is over
AnalyzeDone == pc = "done" /\ req.tool = "analyze_nutrition"

\* what an analyze_nutrition call that is over has done: with more than 10
\* ids nothing but returning the error; with at most 10 ids and a configured
\* client one batch fetch, whose foods are counted in foods_analyzed and
\* listed one by one in comparison
AnalyzeOutcome ==
    AnalyzeDone
        => /\ Len(req.fdc_ids) > 10
                 => /\ response.kind = "dict"
                    /\ response.error = <<"Maximum 10 foods can be analyzed at once">>
                    /\ response.data = None
                    /\ fetches = << >> /\ attempts = << >> /\ net_calls = 0
           /\ (Len(req.fdc_ids) <= 10 /\ api_key)
                 => /\ Len(fetches) = 1
                    /\ net_calls = Len(attempts) /\ net_calls \in 1..3
                    /\ fetches[1].ok
                          => /\ response.error = None
                             /\ response.data[1].foods_analyzed
                                   = Len(fetches[1].payload[1])
                             /\ Len(response.data[1].comparison)
                                   = Len(fetches[1].payload[1])
                             /\ \A i \in 1..Len(fetches[1].payload[1]) :
                                   response.data[1].comparison[i].fdc_id
                                      = fetches[1].payload[1][i].fdcId

\* the step that takes an analyze_nutrition call with more than 10 ids
\* leaves the client of the MCP server as it was
AnalyzeRejectKeepsClient ==
    (pc = "idle" /\ req'.tool = "analyze_nutrition" /\ Len(req'.fdc_ids) > 10)
        => /\ mcp_client' = mcp_client
           /\ pc' = "done"

GetClientRaceFree ==
    /\ created <= 1
    /\ created = 0 <=> mcp_client = "None"
    /\ \A t \in 1..MaxTasks : tasks[t].got # "uninitialized"

\* C24 witness: three tool calls run at once with the API key set, two
\* suspended in their upstream request and one over, all with the
\* initialized client, the only one constructed
GetClientRaceFreeWitness ==
    /\ pc = "tasks"
    /\ created = 1
    /\ mcp_client = "open"
    /\ tasks[1].pc = "request" /\ tasks[1].got = "ready"
    /\ tasks[2].pc = "request" /\ tasks[2].got = "ready"
    /\ tasks[3].pc = "done" /\ tasks[3].got = "ready"

\* the upstream requests a tool request may issue: 3 for each upstream
\* operation it runs
CallBudget ==
    IF req.tool = "compare_foods" THEN 3 * Len(req.fdc_ids)
    ELSE IF req.tool = "demo_vegetarian_iron" THEN 3 * (1 + DemoFoodsLimit)
    ELSE 3

\* a tool request of the HTTP server issues no more upstream requests than
\* its budget, and a compare_foods request that reaches the fetch loop has
\* at most 5 ids
CallsWithinBudget ==
    (req.via = "http" /\ pc \in {"attempt", "backoff", "done"})
        => /\ net_calls <= CallBudget
           /\ req.tool = "compare_foods" => net_calls <= 15
           /\ req.tool \in {"search_foods", "get_food_nutrition"} => net_calls <= 3

\* how many steps a request in flight has left at most: 6 for every id
\* (for the demo, every food) not yet started, 2 for every attempt not yet started, 1 for the attempt
\* that runs and 1 for the return
Remaining ==
    IF pc \in {"attempt", "backoff"}
    THEN (IF req.tool = "compare_foods" THEN 6 * (Len(req.fdc_ids) - idx)
          ELSE IF req.tool = "demo_vegetarian_iron" THEN 6 * (DemoFoodsLimit - idx)
          ELSE 0)
         + 2 * (3 - attempt_number)
         + (IF pc = "attempt" THEN 1 ELSE 0)
         + 1
    ELSE 0

\* a request in flight has steps left, is at an attempt or at a sleep that
\* another attempt follows, and its next fetch has an upstream to answer it;
\* a compare_foods request whose handler ran and that is over was answered
\* with an envelope
RequestProgresses ==
    /\ pc \in {"attempt", "backoff"}
          => /\ Remaining > 0
             /\ attempt_number \in 1..3
             /\ pc = "backoff" => attempt_number < 3
             /\ ScriptsFor(req, Sends(req)) # {}
    /\ (pc = "done" /\ req.via = "http" /\ req.tool = "compare_foods"
        /\ ~RejectedByValidation)
          => response.kind = "envelope"

\* every step of a request in flight brings it closer to its end
RequestAdvances ==
    pc \in {"attempt", "backoff"}
        => /\ Remaining' < Remaining
           /\ pc' \in {"attempt", "backoff", "done"}

\* C25: every compare_foods request given to the handler terminates with an
\* envelope (while in flight it is never stuck, each of its steps lowers a
\* bounded count of the steps left, and its end is an envelope), and the upstream
\* requests it issues are at most 3 times the number of its ids, hence at
\* most 15; search_foods and get_food_nutrition issue at most 3 upstream
\* requests each.
CompareTerminates ==
    /\ [](CallsWithinBudget /\ RequestProgresses)
    /\ [][RequestAdvances]_vars

\* C25 witness: a compare_foods request with 5 ids is over after 15
\* upstream requests, all failed, and was answered with an envelope
CompareTerminatesWitness ==
    /\ pc = "done"
    /\ req.via = "http" /\ req.tool = "compare_foods"
    /\ Len(req.fdc_ids) = 5
    /\ net_calls = 15
    /\ response.kind = "envelope"

(***************************************************************************)
(* C26: every envelope a tool endpoint or a demo endpoint builds has a     *)
(* consistent shape: with success true the error is null and the data is   *)
(* present; with success false the error is a text that is not empty and   *)
(* the data is null.                                                       *)
(***************************************************************************)
TextNotEmpty(text) == \E i \in 1..Len(text) : text[i] # ""

EnvelopeShape ==
    response.kind = "envelope"
        => IF response.success
           THEN response.error = None /\ response.data # None
           ELSE /\ response.error # None
                /\ TextNotEmpty(response.error)
                /\ response.data = None

\* the demo endpoint answers after its search found foods, one of the
\* nutrition fetches failed and two foods with iron were found
EnvelopeShapeWitness ==
    /\ pc = "done"
    /\ req.tool = "demo_vegetarian_iron"
    /\ response.kind = "envelope"
    /\ response.success
    /\ Len(fetches) = 1 + DemoFoodsLimit
    /\ \E i \in 2..Len(fetches) : ~fetches[i].ok
    /\ response.data[1].foods_analyzed = 2

\* the demo endpoint fails on its own: the search and the nutrition fetches
\* succeeded and no food has a mineral named Iron
DemoFailsWithoutIron ==
    /\ pc = "done"
    /\ req.tool = "demo_vegetarian_iron"
    /\ Len(fetches) = 1 + DemoFoodsLimit
    /\ \A i \in 1..Len(fetches) : fetches[i].ok
    /\ response.kind = "envelope"
    /\ ~response.success
    /\ response.error = <<"list index out of range">>

(***************************************************************************)
(* C27: when the upstream search succeeds and returns no foods, the        *)
(* search_foods endpoint answers an envelope with success true whose data  *)
(* carries success false, the error "No foods found" and an empty foods    *)
(* list; the envelope's own success is false only when the upstream call  *)
(* raised.                                                                 *)
(***************************************************************************)
HttpSearchDone ==
    /\ pc = "done"
    /\ req.via = "http"
    /\ req.tool = "search_foods"
    /\ response.kind = "envelope"

EmptySearchIsSuccessEnvelope ==
    HttpSearchDone
        => /\ Len(fetches) = 1
           /\ (fetches[1].ok /\ Len(fetches[1].payload[1].foods) = 0)
                  => /\ response.success
                     /\ response.data[1].success = FALSE
                     /\ response.data[1].error = <<"No foods found">>
                     /\ response.data[1].foods = << >>
           /\ ~response.success => ~fetches[1].ok

\* the upstream answered a search with an empty list of foods
EmptySearchIsSuccessEnvelopeWitness ==
    /\ HttpSearchDone
    /\ Len(fetches) = 1
    /\ fetches[1].ok
    /\ fetches[1].payload[1].foods = << >>
    /\ response.success
    /\ ~response.data[1].success

(***************************************************************************)
(* C28: the search_foods endpoint returns at most 10 foods whatever        *)
(* page_size was asked for and however many foods the upstream returned:   *)
(* the foods of the answer are the first min(10, n) upstream foods, in the *)
(* upstream order, and the message reports that count.                     *)
(***************************************************************************)
SearchFoodsCapped ==
    (HttpSearchDone /\ Len(fetches) = 1 /\ fetches[1].ok)
        => LET found == fetches[1].payload[1].foods
               foods == response.data[1].foods
               k == IF Len(found) < 10 THEN Len(found) ELSE 10
           IN  /\ response.success
               /\ Len(foods) <= 10
               /\ Len(foods) = k
               /\ \A i \in 1..k :
                      /\ foods[i].fdc_id = found[i].fdcId
                      /\ foods[i].description = found[i].description
                      /\ foods[i].data_type = found[i].dataType
               /\ k > 0 => response.data[1].message
                               = <<"Found ", k, " foods matching '", req.query, "'">>

\* the upstream returned 11 foods to a search with page_size 200
SearchFoodsCappedWitness ==
    /\ HttpSearchDone
    /\ req.page_size = 200
    /\ Len(fetches) = 1
    /\ fetches[1].ok
    /\ Len(fetches[1].payload[1].foods) = 11
    /\ Len(response.data[1].foods) = 10
    /\ response.data[1].foods[10].fdc_id = fetches[1].payload[1].foods[10].fdcId

(***************************************************************************)
(* C29: handle_call_tool of the bridge is total: however the POST ends it  *)
(* returns exactly one text item and raises nothing, after a single        *)
(* request.  A success envelope gives the formatted payload, a failure     *)
(* envelope its error text, a timeout the timeout message (not the HTTP    *)
(* error text), another transport error or a status that is not 2xx the    *)
(* HTTP error text.                                                        *)
(***************************************************************************)
BridgeText == content.items[1].text

BridgeCallIsTotal ==
    /\ posts <= 1
    /\ pc = "done"
        => /\ posts = 1
           /\ ~content.raised
           /\ Len(content.items) = 1
           /\ content.items[1].type = "text"
           /\ answer.kind = "timeout"
                  => BridgeText = <<"Request timed out. Please try again.">>
           /\ answer.kind = "connect_error"
                  => SubSeq(BridgeText, 1, 1) = <<"HTTP Error: ">>
           /\ (answer.kind = "response" /\ answer.response.status # 200)
                  => SubSeq(BridgeText, 1, 1) = <<"HTTP Error: ">>
           /\ (answer.kind = "response" /\ answer.response.kind = "envelope"
                  /\ answer.response.success)
                  => BridgeText = format_response(req.tool, answer.response.data[1])
           /\ (answer.kind = "response" /\ answer.response.kind = "envelope"
                  /\ ~answer.response.success)
                  => BridgeText = <<"Error: ">> \o answer.response.error

\* the POST of a search timed out and the caller got the timeout message
BridgeCallIsTotalWitness ==
    /\ pc = "done"
    /\ req.tool = "search_foods"
    /\ answer.kind = "timeout"
    /\ posts = 1
    /\ content.items = <<[type |-> "text",
                          text |-> <<"Request timed out. Please try again.">>]>>

(***************************************************************************)
(* C30: the life cycle of the client.  is_configured() is true exactly     *)
(* when the API key is present and initialize() has run.  close() leaves   *)
(* the handle assigned: after initialize() and close() is_configured() is  *)
(* still true, and a later upstream call is not refused as not configured  *)
(* but attempted on the closed handle, 3 times, before it fails.           *)
(***************************************************************************)
ProcessHandle == IF process = "mcp" THEN mcp_client ELSE client

CallOnClosedHandle ==
    /\ pc = "done"
    /\ req.via = "client"
    /\ req.tool \in {"search_foods", "get_food_details"}
    /\ api_key
    /\ client = "closed"

ClientLifecycle ==
    /\ is_configured(ProcessHandle) <=> (api_key /\ initialized)
    /\ CallOnClosedHandle
           => /\ is_configured(client)
              /\ Len(attempts) = StopAfterAttempt
              /\ \A i \in 1..Len(attempts) :
                     /\ attempts[i].exc.type = "RuntimeError"
                     /\ attempts[i].exc # NotConfiguredError
                     /\ ~attempts[i].sent
              /\ net_calls = 0
              /\ response.kind = "raised"
              /\ response.exc[1].type = "RetryError"
              /\ response.exc[1].cause = "RuntimeError"

\* initialize() and close() ran, and a search made afterwards ended after
\* its third attempt on the closed handle
ClientLifecycleWitness ==
    /\ CallOnClosedHandle
    /\ req.tool = "search_foods"
    /\ initialized
    /\ Len(attempts) = 3
    /\ Len(sleeps) = 2
    /\ response.kind = "raised"

====
